---- MODULE Spec2Model ----
(***************************************************************************)
(* A model of the CasperLabs execution engine: the in-memory versioned     *)
(* global state (InMemGS), the tracking copy in front of it, the engine's  *)
(* run_deploy / exec path and the transactional trie store.                *)
(***************************************************************************)
EXTENDS Integers, Sequences, FiniteSets, TLC

VARIABLES
    active_state,   \* InMemGS.active_state : Key -> Value (a partial map)
    history,        \* InMemGS.history : root hash -> snapshot of the state
    result,         \* what the last call on the store returned
    activeRoot,     \* the root active_state was checked out at, NoRoot once modified
    lastCommit,     \* the last commit made on a checked-out root: prestate, effects, root
    tc,             \* the tracking copy under observation: root, cache, ops, fns
    tcResult,       \* what the last call on the tracking copy returned
    dirty,          \* per key the tracking copy wrote: the value last written (NoValue after an add)
    response,       \* what the last run_deploy or exec returned, with the request it answers
    env,            \* the trie store's environment: its backend and the committed data
    txn,            \* the open read-write transaction of the environment: its pending puts
    readResult,     \* what the last get in a read transaction returned
    committedPuts,  \* the hashes put by read-write transactions that were committed
    droppedPuts,    \* the hashes put by read-write transactions that ended without commit
    mem,            \* an in-memory environment of the trie store, with its read-write transaction
    lmdb,           \* an LMDB environment of the trie store, with its read-write transaction
    pending,        \* the tries put in the open read-write transaction, by hash
    pairResult,     \* what the last get_many returned on each of the two environments
    alg,            \* a value and three transforms, with what the last evaluation on them gave
    rt,             \* the runtime of the deploy being executed: its gas counter and its tracking copy
    hostCall,       \* the last call the Wasm code made into the host, with its outcome
    deployResults,  \* the execution results of the deploys of the request so far
    frames,         \* the call stack of the deploy: the known_urefs of each call frame, the current frame last
    urefCall,       \* the last host call that named a URef, with its outcome
    stagedURefs,    \* the addresses of the URefs the deploy has staged a write or an add to
    reply,          \* how the last request to the service ended: the response variant and its message, or a panic
    ser,            \* a Key, Value, U512, Pointer or Trie with the bytes that follow it, its serialization and what was parsed back
    norm,           \* two keys, their normal forms and how these compare
    left,           \* a trie and the entries written to it, in their order
    right,          \* a second trie, written to in an order of its own
    bank,           \* the accounts with their main purses, and the balance of every purse
    xfer,           \* the last transfer deploy, with the bank before it
    world,          \* the global state the counter deploys are committed to
    ctr,            \* the counter deploys so far and what the last one did
    validate_request,\* the codes of the last validate request
    queried,        \* the last query_state call and what it returned
    genesis,        \* the arguments of create_genesis_effects and what the calls with them gave
    exec_response,  \* the deploys of the last exec request and the results returned for them
    lock,           \* the thread that holds each mutex of the store, 0 for none
    thread,         \* the call each thread is in, its position and its locals
    bond_env,       \* the state the bonding deploy runs on, and the host calls the deploy has made
    bonding         \* the frame of the bonding session contract: its position and its locals

storeVars == <<active_state, history, result>>
detVars == <<activeRoot, lastCommit>>
tcVars == <<tc, tcResult, dirty>>
execVars == <<response>>
trieVars == <<env, txn, readResult, committedPuts, droppedPuts>>
pairVars == <<mem, lmdb, pending, pairResult>>
algVars == <<alg>>
rtVars == <<rt, hostCall, deployResults>>
urefVars == <<frames, urefCall, stagedURefs>>
srvVars == <<reply>>
serVars == <<ser>>
normVars == <<norm>>
writeVars == <<left, right>>
xferVars == <<bank, xfer>>
ctrVars == <<world, ctr>>
valVars == <<validate_request>>
qryVars == <<queried>>
genVars == <<genesis>>
respVars == <<exec_response>>
concVars == <<lock, thread>>
bondVars == <<bond_env, bonding>>

(***************************************************************************)
(* Bounds of the model.                                                    *)
(***************************************************************************)
\* At most this many roots are recorded in the history.
MaxRoots == 2
\* At most this many calls are made on one tracking copy.
MaxTcCalls == 3
\* The width in bits UInt512 is modelled with (512 in the program).
U512Bits == 2
\* At most this many deploys are sent in one exec request.
MaxDeploys == 2
\* This many of the test tries are put in the trie store.
NumItems == 3
\* The largest gas limit of a deploy, and the largest argument of a gas call.
MaxGas == 2
\* The deepest call stack: the session code and the contracts it calls.
MaxDepth == 2
\* At most this many URefs are made by new_uref in one deploy.
MaxFresh == 1
\* The number of entries a pointer block is modelled with (256 in the program).
RADIX == 4

(***************************************************************************)
(* Keys and values (common/src/key.rs, common/src/value/mod.rs).           *)
(***************************************************************************)
ACCOUNT_ID == 0
HASH_ID == 1
UREF_ID == 2
LOCAL_ID == 3
INT32_ID == 0
BYTEARRAY_ID == 1
LISTINT32_ID == 2
STRING_ID == 3
NAMEDKEY_ID == 6
LISTSTRING_ID == 7
CONTRACT_ID == 5
ACCT_ID == 4
\* The tag of UInt512, which the Value of the sources does not have yet.
UINT512_ID == 10

\* i32::MAX, where saturating_add stops.
I32_MAX == 2147483647

\* A 32-byte address is modelled by a one-cell byte string.
Account(addr) == [tag |-> ACCOUNT_ID, addr |-> addr]
Hash(addr) == [tag |-> HASH_ID, addr |-> addr]

Int32(i) == [tag |-> INT32_ID, n |-> i, s |-> <<>>]
StringV(str) == [tag |-> STRING_ID, n |-> 0, s |-> str]

\* UInt512 is modelled U512Bits wide: its largest value.
U512_MAX == 2 ^ U512Bits - 1

UInt512(u) == [tag |-> UINT512_ID, n |-> u, s |-> <<>>]

\* A contract, of which the named keys are kept: a map from name to key.
Contract(named_keys) == [tag |-> CONTRACT_ID, n |-> 0, s |-> <<>>, named_keys |-> named_keys]

\* Option<T>
OptNone == [some |-> FALSE]
OptSome(v) == [some |-> TRUE, v |-> v]

\* Key::URef(addr, maybe_access_rights) and Key::Local { seed, key_hash }
KeyURef(addr, maybe_access_rights) ==
    [tag |-> UREF_ID, addr |-> addr, access_rights |-> maybe_access_rights]
KeyLocal(seed, key_hash) == [tag |-> LOCAL_ID, seed |-> seed, key_hash |-> key_hash]

\* Value::ByteArray, Value::ListInt32, Value::ListString, Value::NamedKey
ByteArray(arr) == [tag |-> BYTEARRAY_ID, n |-> 0, s |-> arr]
ListInt32(arr) == [tag |-> LISTINT32_ID, n |-> 0, s |-> arr]
ListString(arr) == [tag |-> LISTSTRING_ID, n |-> 0, s |-> arr]
NamedKey(name, key) == [tag |-> NAMEDKEY_ID, n |-> 0, s |-> name, key |-> key]

\* The keys and values the operations are driven with.
Keys == {Account(<<12>>), Hash(<<42>>)}
Values == {Int32(I32_MAX), StringV(<<97>>)}

(***************************************************************************)
(* Byte serialization (ToBytes): little-endian integers, a u32 length in   *)
(* front of variable data, a one-byte tag in front of each variant.        *)
(***************************************************************************)
U32ToBytes(u) ==
    <<u % 256, (u \div 256) % 256, (u \div 65536) % 256, (u \div 16777216) % 256>>

\* Two's complement of an i32, little-endian.
I32ToBytes(i) ==
    IF i >= 0 THEN U32ToBytes(i)
    ELSE LET u == i + 1073741824 + 1073741824
         IN  <<u % 256, (u \div 256) % 256, (u \div 65536) % 256,
               ((u \div 16777216) % 256) + 128>>

BytesToBytes(b) == U32ToBytes(Len(b)) \o b

\* ToBytes for Vec<i32> and Vec<String>: a u32 count, then the elements
RECURSIVE ConcatI32(_)
ConcatI32(arr) == IF arr = <<>> THEN <<>> ELSE I32ToBytes(Head(arr)) \o ConcatI32(Tail(arr))
ListInt32ToBytes(arr) == U32ToBytes(Len(arr)) \o ConcatI32(arr)

RECURSIVE ConcatStrings(_)
ConcatStrings(arr) ==
    IF arr = <<>> THEN <<>> ELSE BytesToBytes(Head(arr)) \o ConcatStrings(Tail(arr))
ListStringToBytes(arr) == U32ToBytes(Len(arr)) \o ConcatStrings(arr)

\* ToBytes for Option<AccessRights>: a byte that tells None from Some, then
\* the bits of the rights
OptionRightsToBytes(maybe_access_rights) ==
    IF maybe_access_rights.some THEN <<1, maybe_access_rights.v>> ELSE <<0>>

\* ToBytes for Key: the id, then the fields of the variant
KeyToBytes(k) ==
    CASE k.tag = UREF_ID ->
            <<UREF_ID>> \o BytesToBytes(k.addr) \o OptionRightsToBytes(k.access_rights)
      [] k.tag = LOCAL_ID ->
            <<LOCAL_ID>> \o BytesToBytes(k.seed) \o BytesToBytes(k.key_hash)
      [] OTHER -> <<k.tag>> \o BytesToBytes(k.addr)

\* ToBytes for Value: the id, then the content of the variant (the variants
\* encoded outside value/mod.rs keep their id and their bytes)
ValueToBytes(v) ==
    CASE v.tag = INT32_ID -> <<INT32_ID>> \o I32ToBytes(v.n)
      [] v.tag = BYTEARRAY_ID -> <<BYTEARRAY_ID>> \o BytesToBytes(v.s)
      [] v.tag = LISTINT32_ID -> <<LISTINT32_ID>> \o ListInt32ToBytes(v.s)
      [] v.tag = STRING_ID -> <<STRING_ID>> \o BytesToBytes(v.s)
      [] v.tag = NAMEDKEY_ID -> <<NAMEDKEY_ID>> \o BytesToBytes(v.s) \o KeyToBytes(v.key)
      [] v.tag = LISTSTRING_ID -> <<LISTSTRING_ID>> \o ListStringToBytes(v.s)
      [] OTHER -> <<v.tag>> \o BytesToBytes(v.s)

\* The bytes of a U512, least significant first, in a buffer of 64
U512_BYTES == 64
RECURSIVE ByteAt(_, _)
ByteAt(u, i) == IF i = 1 THEN u % 256 ELSE ByteAt(u \div 256, i - 1)
ToLittleEndian(u) == [i \in 1..U512_BYTES |-> ByteAt(u, i)]

Reverse(seq) == [i \in 1..Len(seq) |-> seq[Len(seq) + 1 - i]]

RECURSIVE SkipWhileZero(_)
SkipWhileZero(seq) ==
    IF seq # <<>> /\ Head(seq) = 0 THEN SkipWhileZero(Tail(seq)) ELSE seq

\* to_bytes as it would be if every zero byte were left out.
U512ToBytesWithoutZeros(u) ==
    LET non_zero_bytes == SelectSeq(Reverse(ToLittleEndian(u)), LAMBDA b : b # 0)
    IN  Reverse(Append(non_zero_bytes, Len(non_zero_bytes)))

\* ToBytes for U512: the buffer from its most significant byte on, without
\* the zeros in front, the count of what is left pushed, and all reversed
U512ToBytes(u) ==
    LET non_zero_bytes == SkipWhileZero(Reverse(ToLittleEndian(u)))
    IN  Reverse(Append(non_zero_bytes, Len(non_zero_bytes)))

(***************************************************************************)
(* Maps (HashMap): partial functions.                                      *)
(***************************************************************************)
EmptyMap == <<>>

Insert(m, k, v) == [x \in DOMAIN m \cup {k} |-> IF x = k THEN v ELSE m[x]]

Remove(m, k) == [x \in DOMAIN m \ {k} |-> m[x]]

\* extend: the entries of m2 replace those of m1.
Extend(m1, m2) == [x \in DOMAIN m1 \cup DOMAIN m2 |-> IF x \in DOMAIN m2 THEN m2[x] ELSE m1[x]]

\* The orders in which a HashMap with key set S may be iterated: the order is
\* unspecified (it depends on the map's random hasher seed, its capacity and
\* its insertion history), so every order is possible.
IterationOrders(S) ==
    {o \in [1..Cardinality(S) -> S] : \A i, j \in 1..Cardinality(S) : o[i] = o[j] => i = j}

(***************************************************************************)
(* Transforms (storage/src/transform.rs, not among the sources: after      *)
(* section 4.1 of the specification).                                      *)
(***************************************************************************)
Identity == [t |-> "Identity", v |-> Int32(0)]
Write(v) == [t |-> "Write", v |-> v]
AddInt32(i) == [t |-> "AddInt32", v |-> Int32(i)]
AddUInt512(u) == [t |-> "AddUInt512", v |-> UInt512(u)]
AddKeys(m) == [t |-> "AddKeys", v |-> Contract(m)]

Transforms == {Identity, AddInt32(1)} \cup {Write(v) : v \in Values}

\* The sum of two i32 as it would be if it wrapped: reduced modulo 2^32.
WrappingAdd(i, j) ==
    IF j > 0 /\ i > I32_MAX - j THEN ((i - I32_MAX) + (j - I32_MAX)) - 2
    ELSE IF j < 0 /\ i < (-I32_MAX - 1) - j THEN ((i + I32_MAX) + (j + I32_MAX)) + 2
    ELSE i + j

SaturatingAdd(i, j) ==
    IF j > 0 /\ i > I32_MAX - j THEN I32_MAX
    ELSE IF j < 0 /\ i < (-I32_MAX - 1) - j THEN -I32_MAX - 1
    ELSE i + j

\* saturating add of two UInt512
SaturatingAddU512(u, w) == IF u + w > U512_MAX THEN U512_MAX ELSE u + w

\* Transform::apply : Ok(value) or Err(TypeMismatch)
Apply(t, curr) ==
    CASE t.t = "Identity" -> [ok |-> TRUE, v |-> curr]
      [] t.t = "Write" -> [ok |-> TRUE, v |-> t.v]
      [] t.t = "AddInt32" ->
            IF curr.tag = INT32_ID
            THEN [ok |-> TRUE, v |-> Int32(SaturatingAdd(curr.n, t.v.n))]
            ELSE [ok |-> FALSE, v |-> curr]
      [] t.t = "AddUInt512" ->
            IF curr.tag = UINT512_ID
            THEN [ok |-> TRUE, v |-> UInt512(SaturatingAddU512(curr.n, t.v.n))]
            ELSE [ok |-> FALSE, v |-> curr]
      [] t.t = "AddKeys" ->
            IF curr.tag = CONTRACT_ID
            THEN [ok |-> TRUE, v |-> Contract(Extend(curr.named_keys, t.v.named_keys))]
            ELSE [ok |-> FALSE, v |-> curr]
      [] OTHER -> [ok |-> FALSE, v |-> curr]

\* Every effect set over the model's keys: HashMap<Key, Transform>.
EffectSets == UNION {[S -> Transforms] : S \in SUBSET Keys}

(***************************************************************************)
(* InMemGS (storage/src/gs/inmem.rs).                                      *)
(***************************************************************************)
NoRoot == <<>>
NoValue == [tag |-> 255, n |-> 0, s |-> <<>>]

\* The bytes get_root_hash feeds the hasher: key and value bytes of every
\* entry, in the map's iteration order.
RECURSIVE RootData(_, _)
RootData(st, order) ==
    IF order = <<>> THEN <<>>
    ELSE KeyToBytes(Head(order)) \o ValueToBytes(st[Head(order)]) \o RootData(st, Tail(order))

\* Blake2b is taken to be collision free: a hash is identified with the bytes
\* hashed, behind a marker byte that keeps it apart from NoRoot.
Blake2b(data) == <<32>> \o data

\* get_root_hash, for one iteration order of active_state
RootHash(st, order) == Blake2b(RootData(st, order))

\* The closure of commit's try_fold as it would be if a transform on a key
\* without a value were passed over.
RECURSIVE TryFoldPassesOverAbsent(_, _, _)
TryFoldPassesOverAbsent(st, order, effects) ==
    IF order = <<>> THEN [err |-> "Ok", st |-> st]
    ELSE IF Head(order) \notin DOMAIN st
    THEN TryFoldPassesOverAbsent(
            IF effects[Head(order)].t = "Write" THEN Insert(st, Head(order), effects[Head(order)].v) ELSE st,
            Tail(order), effects)
    ELSE IF Apply(effects[Head(order)], st[Head(order)]).ok
    THEN TryFoldPassesOverAbsent(Insert(st, Head(order), Apply(effects[Head(order)], st[Head(order)]).v),
                                 Tail(order), effects)
    ELSE [err |-> "TypeMismatch", st |-> Remove(st, Head(order))]

\* The closure of commit's try_fold: effects applied in the order given;
\* the key is removed before its transform is looked at.
RECURSIVE TryFold(_, _, _)
TryFold(st, order, effects) ==
    IF order = <<>> THEN [err |-> "Ok", st |-> st]
    ELSE LET k == Head(order)
             t == effects[k]
             removed == Remove(st, k)
         IN  IF k \notin DOMAIN st
             THEN IF t.t = "Write"
                  THEN TryFold(Insert(removed, k, t.v), Tail(order), effects)
                  ELSE [err |-> "KeyNotFound", st |-> removed]
             ELSE LET r == Apply(t, st[k])
                  IN  IF r.ok
                      THEN TryFold(Insert(removed, k, r.v), Tail(order), effects)
                      ELSE [err |-> "TypeMismatch", st |-> removed]

Result(op, res, root, val) == [op |-> op, res |-> res, root |-> root, val |-> val]

\* InMemGS::new
StoreInit ==
    /\ active_state = EmptyMap
    /\ history = EmptyMap
    /\ result = Result("new", "Ok", NoRoot, NoValue)

\* DbReader::get, on the working state st
DbGet(st, k) ==
    IF k \in DOMAIN st
    THEN Result("get", "Ok", NoRoot, st[k])
    ELSE Result("get", "KeyNotFound", NoRoot, NoValue)

\* DbReader::get called on the store
Get(k) ==
    /\ result' = DbGet(active_state, k)
    /\ UNCHANGED <<active_state, history>>

\* Checkout as it would be if the snapshot were fetched with a default for a
\* missing root: the working state is replaced before the error is returned.
CheckoutDefaultOnMiss(prestate_hash) ==
    IF prestate_hash \notin DOMAIN history
    THEN /\ active_state' = EmptyMap
         /\ result' = Result("checkout", "RootNotFound", prestate_hash, NoValue)
         /\ UNCHANGED history
    ELSE /\ active_state' = history[prestate_hash]
         /\ result' = Result("checkout", "Ok", prestate_hash, NoValue)
         /\ UNCHANGED history

\* History::checkout
Checkout(prestate_hash) ==
    IF prestate_hash \notin DOMAIN history
    THEN /\ result' = Result("checkout", "RootNotFound", prestate_hash, NoValue)
         /\ UNCHANGED <<active_state, history>>
    ELSE /\ active_state' = history[prestate_hash]
         /\ result' = Result("checkout", "Ok", prestate_hash, NoValue)
         /\ UNCHANGED history

RECURSIVE ExtendAll(_, _)
ExtendAll(new_root, snapshots) ==
    IF snapshots = <<>> THEN new_root
    ELSE ExtendAll(Extend(new_root, Head(snapshots)), Tail(snapshots))

\* History::checkout_multiple
CheckoutMultiple(prestate_hashes) ==
    LET missing == {i \in 1..Len(prestate_hashes) : prestate_hashes[i] \notin DOMAIN history}
    IN  IF missing # {}
        THEN LET first == CHOOSE i \in missing : \A j \in missing : i <= j
             IN  /\ result' = Result("checkout_multiple", "RootNotFound",
                                     prestate_hashes[first], NoValue)
                 /\ UNCHANGED <<active_state, history>>
        ELSE /\ active_state' =
                    ExtendAll(EmptyMap, [i \in 1..Len(prestate_hashes) |-> history[prestate_hashes[i]]])
             /\ result' = Result("checkout_multiple", "Ok", NoRoot, NoValue)
             /\ UNCHANGED history

\* Commit as it would be if the root hash were taken before the effects are
\* applied: the new state is stored under the hash of the old one.
CommitHashBeforeFold(effects) ==
    \E order \in IterationOrders(DOMAIN effects) :
        LET folded == TryFold(active_state, order, effects)
        IN  /\ active_state' = folded.st
            /\ IF folded.err = "Ok"
               THEN \E iter \in IterationOrders(DOMAIN active_state) :
                        LET hash == RootHash(active_state, iter)
                        IN  /\ Cardinality(DOMAIN history \cup {hash}) <= MaxRoots
                            /\ history' = Insert(history, hash, folded.st)
                            /\ result' = Result("commit", "Ok", hash, NoValue)
               ELSE /\ history' = history
                    /\ result' = Result("commit", folded.err, NoRoot, NoValue)

\* History::commit
Commit(effects) ==
    \E order \in IterationOrders(DOMAIN effects) :
        LET folded == TryFold(active_state, order, effects)
        IN  /\ active_state' = folded.st
            /\ IF folded.err = "Ok"
               THEN \E iter \in IterationOrders(DOMAIN folded.st) :
                        LET hash == RootHash(folded.st, iter)
                        IN  /\ Cardinality(DOMAIN history \cup {hash}) <= MaxRoots
                            /\ history' = Insert(history, hash, folded.st)
                            /\ result' = Result("commit", "Ok", hash, NoValue)
               ELSE /\ history' = history
                    /\ result' = Result("commit", folded.err, NoRoot, NoValue)

\* History::get_root_hash
GetRootHash ==
    /\ \E iter \in IterationOrders(DOMAIN active_state) :
           result' = Result("get_root_hash", "Ok", RootHash(active_state, iter), NoValue)
    /\ UNCHANGED <<active_state, history>>

\* A root that no commit has produced.
UnknownRoot == Blake2b(<<255>>)

vars == <<storeVars, detVars, tcVars, execVars, trieVars, pairVars, algVars, rtVars, urefVars, srvVars, serVars, normVars, writeVars, xferVars, ctrVars, valVars, qryVars, genVars, respVars, concVars, bondVars>>

NoCommit == [pre |-> NoRoot, eff |-> EmptyMap, post |-> NoRoot]

\* The bookkeeping of the determinism check is idle.
DetIdle == activeRoot = NoRoot /\ lastCommit = NoCommit

(***************************************************************************)
(* Commits on checked-out roots, with the prestate root of each commit     *)
(* kept beside the store.                                                  *)
(***************************************************************************)
\* The effect sets of this specification: reads and writes of one value.
DetEffectSets == UNION {[S -> {Identity, Write(Int32(I32_MAX))}] : S \in SUBSET Keys}

DetCheckout(root) ==
    /\ Checkout(root)
    /\ activeRoot' = IF root \in DOMAIN history THEN root ELSE activeRoot
    /\ UNCHANGED lastCommit

DetCommit(effects) ==
    /\ Commit(effects)
    /\ activeRoot' = NoRoot
    /\ lastCommit' = IF activeRoot # NoRoot /\ result'.res = "Ok"
                     THEN [pre |-> activeRoot, eff |-> effects, post |-> result'.root]
                     ELSE lastCommit


(***************************************************************************)
(* TrackingCopy (storage/src/gs/mod.rs, not among the sources: after       *)
(* section 4.2 of the specification). Its reader is the store it was made  *)
(* from: checkout returns TrackingCopy::new(self).                         *)
(***************************************************************************)
Failure == [t |-> "Failure", v |-> Int32(0)]

\* compose as it would be if the later of two adds were subtracted.
ComposeSubtracts(a, b) ==
    CASE a.t = "Identity" -> b
      [] b.t = "Identity" -> a
      [] a.t = "Write" /\ b.t \in {"AddInt32", "AddUInt512", "AddKeys"} ->
            IF Apply(b, a.v).ok THEN Write(Apply(b, a.v).v) ELSE Failure
      [] a.t = "AddInt32" /\ b.t = "AddInt32" -> AddInt32(SaturatingAdd(a.v.n, -b.v.n))
      [] OTHER -> Failure

\* compose as it would be if of two adds only the earlier were kept.
ComposeKeepsFirstAdd(a, b) ==
    CASE a.t = "Identity" -> b
      [] b.t = "Identity" -> a
      [] a.t = "Write" /\ b.t \in {"AddInt32", "AddUInt512", "AddKeys"} ->
            IF Apply(b, a.v).ok THEN Write(Apply(b, a.v).v) ELSE Failure
      [] a.t \in {"AddInt32", "AddUInt512", "AddKeys"} /\ b.t = a.t -> a
      [] OTHER -> Failure

\* compose(a, b): a, then b
Compose(a, b) ==
    CASE a.t = "Identity" -> b
      [] b.t = "Identity" -> a
      [] a.t = "Write" /\ b.t = "AddInt32" ->
            IF a.v.tag = INT32_ID
            THEN Write(Int32(SaturatingAdd(a.v.n, b.v.n)))
            ELSE Failure
      [] a.t = "AddInt32" /\ b.t = "AddInt32" -> AddInt32(SaturatingAdd(a.v.n, b.v.n))
      [] a.t = "Write" /\ b.t \in {"AddUInt512", "AddKeys"} ->
            IF Apply(b, a.v).ok THEN Write(Apply(b, a.v).v) ELSE Failure
      [] a.t = "AddUInt512" /\ b.t = "AddUInt512" ->
            AddUInt512(SaturatingAddU512(a.v.n, b.v.n))
      [] a.t = "AddKeys" /\ b.t = "AddKeys" ->
            AddKeys(Extend(a.v.named_keys, b.v.named_keys))
      [] OTHER -> Failure

\* The join of two classes of operation: Read below Add below Write.
OpRank(o) == CASE o = "NoOp" -> 0 [] o = "Read" -> 1 [] o = "Add" -> 2 [] o = "Write" -> 3

OpJoin(o1, o2) == IF OpRank(o1) >= OpRank(o2) THEN o1 ELSE o2

Lookup(m, k, default) == IF k \in DOMAIN m THEN m[k] ELSE default

NoKey == [tag |-> 255, addr |-> <<>>]
NoTc == [root |-> NoRoot, cache |-> EmptyMap, ops |-> EmptyMap, fns |-> EmptyMap, calls |-> 0]
NoTcResult == [op |-> "none", res |-> "Ok", key |-> NoKey, val |-> NoValue]
TcResult(op, res, k, v) == [op |-> op, res |-> res, key |-> k, val |-> v]

\* TrackingCopy::new, for the copy handed out by a checkout of root
NewTc(root) == [root |-> root, cache |-> EmptyMap, ops |-> EmptyMap, fns |-> EmptyMap, calls |-> 0]

\* TrackingCopy::read on copy t over the reader's state st: the copy after
\* the call and what the call returns
TcReadOn(t, st, k) ==
    IF k \in DOMAIN t.cache
    THEN [tc |-> t, ret |-> TcResult("read", "Ok", k, t.cache[k])]
    ELSE LET got == DbGet(st, k)
         IN  IF got.res = "Ok"
             THEN [tc |-> [t EXCEPT !.cache = Insert(@, k, got.val),
                                    !.ops = Insert(@, k, OpJoin(Lookup(@, k, "NoOp"), "Read"))],
                   ret |-> TcResult("read", "Ok", k, got.val)]
             ELSE [tc |-> t, ret |-> TcResult("read", "KeyNotFound", k, NoValue)]

\* write as it would be if the cache kept the entry it already holds.
TcWriteKeepsCached(t, k, v) ==
    [tc |-> [t EXCEPT !.cache = IF k \in DOMAIN @ THEN @ ELSE Insert(@, k, v),
                      !.fns = Insert(@, k, Compose(Write(v), Lookup(@, k, Identity))),
                      !.ops = Insert(@, k, OpJoin(Lookup(@, k, "NoOp"), "Write"))],
     ret |-> TcResult("write", "Ok", k, v)]

\* TrackingCopy::write
TcWriteOn(t, k, v) ==
    [tc |-> [t EXCEPT !.cache = Insert(@, k, v),
                      !.fns = Insert(@, k, Compose(Write(v), Lookup(@, k, Identity))),
                      !.ops = Insert(@, k, OpJoin(Lookup(@, k, "NoOp"), "Write"))],
     ret |-> TcResult("write", "Ok", k, v)]

\* TrackingCopy::add
TcAddOn(t, st, k, delta) ==
    LET curr == IF k \in DOMAIN t.cache
                THEN Result("get", "Ok", NoRoot, t.cache[k])
                ELSE DbGet(st, k)
    IN  IF curr.res # "Ok"
        THEN [tc |-> t, ret |-> TcResult("add", "KeyNotFound", k, NoValue)]
        ELSE LET r == Apply(delta, curr.val)
             IN  IF r.ok
                 THEN [tc |-> [t EXCEPT !.cache = Insert(@, k, r.v),
                                        !.fns = Insert(@, k, Compose(Lookup(@, k, Identity), delta)),
                                        !.ops = Insert(@, k, OpJoin(Lookup(@, k, "NoOp"), "Add"))],
                       ret |-> TcResult("add", "Ok", k, r.v)]
                 ELSE [tc |-> t, ret |-> TcResult("add", "TypeMismatch", k, NoValue)]

\* A call counted against the bound on calls per copy.
Counted(r) == [r EXCEPT !.tc.calls = @ + 1]

TcIdle == tc = NoTc /\ tcResult = NoTcResult /\ dirty = EmptyMap

\* A checkout whose tracking copy is kept and used.
TcCheckout(root) ==
    /\ Checkout(root)
    /\ IF root \in DOMAIN history
       THEN tc' = NewTc(root) /\ tcResult' = NoTcResult /\ dirty' = EmptyMap
       ELSE UNCHANGED tcVars

TcRead(k) ==
    /\ tc # NoTc /\ tc.calls < MaxTcCalls
    /\ LET r == Counted(TcReadOn(tc, active_state, k))
       IN  tc' = r.tc /\ tcResult' = r.ret
    /\ UNCHANGED <<storeVars, dirty>>

TcWrite(k, v) ==
    /\ tc # NoTc /\ tc.calls < MaxTcCalls
    /\ LET r == Counted(TcWriteOn(tc, k, v))
       IN  tc' = r.tc /\ tcResult' = r.ret
    /\ dirty' = Insert(dirty, k, v)
    /\ UNCHANGED storeVars

TcAdd(k, delta) ==
    /\ tc # NoTc /\ tc.calls < MaxTcCalls
    /\ LET r == Counted(TcAddOn(tc, active_state, k, delta))
       IN  /\ tc' = r.tc /\ tcResult' = r.ret
           /\ dirty' = IF r.ret.res = "Ok" THEN Insert(dirty, k, NoValue) ELSE dirty
    /\ UNCHANGED storeVars

\* The effect sets committed beside the tracking copy: the account key written.
TcEffectSets == {[x \in {Account(<<12>>)} |-> Write(v)] : v \in Values}

(***************************************************************************)
(* The engine: run_deploy (engine/src/engine.rs) and the exec request      *)
(* (comm/src/engine_server/mod.rs). The preprocessor and the Wasm          *)
(* interpreter are not among the sources: session code is modelled by      *)
(* whether it preprocesses and by the host calls it makes when executed.   *)
(***************************************************************************)
HostRead(k) == [op |-> "read", key |-> k, val |-> NoValue]
HostWrite(k, v) == [op |-> "write", key |-> k, val |-> v]
HostRevert == [op |-> "revert", key |-> NoKey, val |-> NoValue]

\* Session code: bytes that preprocess to a module making these host calls,
\* or bytes that do not preprocess.
Wasm(body) == [valid |-> TRUE, body |-> body]
Malformed == [valid |-> FALSE, body |-> <<>>]

\* The session codes deploys are sent with.
Modules ==
    {Malformed, Wasm(<<HostRead(Account(<<12>>))>>),
     Wasm(<<HostWrite(Account(<<12>>), StringV(<<97>>)), HostRevert>>)}
        \cup {Wasm(<<HostWrite(Account(<<12>>), v)>>) : v \in Values}

\* The deploy lists of an exec request.
DeployLists == UNION {[1..n -> Modules] : n \in 0..MaxDeploys}

\* process(module_bytes, wasm_costs)
Process(module_bytes) ==
    IF module_bytes.valid
    THEN [ok |-> TRUE, module |-> module_bytes.body]
    ELSE [ok |-> FALSE, module |-> <<>>]

\* ExecutionResult::Success(ee), with the returns of the host calls made
Success(t, trace) ==
    [status |-> "Success", error |-> "None", ops |-> t.ops, transforms |-> t.fns, trace |-> trace]

\* ExecutionResult::Failure(error): the staged effect is discarded
ExecFailure(error, trace) ==
    [status |-> "Failure", error |-> error, ops |-> EmptyMap, transforms |-> EmptyMap,
     trace |-> trace]

\* exec(module, ..., &mut tc): the host calls of the module made in program
\* order on tracking copy t, whose reader's state is st
RECURSIVE ExecModule(_, _, _, _)
ExecModule(module, t, st, trace) ==
    IF module = <<>> THEN Success(t, trace)
    ELSE LET call == Head(module)
         IN  CASE call.op = "read" ->
                    LET r == TcReadOn(t, st, call.key)
                    IN  ExecModule(Tail(module), r.tc, st, Append(trace, r.ret))
               [] call.op = "write" ->
                    LET r == TcWriteOn(t, call.key, call.val)
                    IN  ExecModule(Tail(module), r.tc, st, Append(trace, r.ret))
               [] OTHER -> ExecFailure("Revert", trace)

\* EngineState::run_deploy on a store with working state st and history hist:
\* the outcome and the working state the checkout leaves
RunDeployOn(st, hist, module_bytes, prestate_hash) ==
    LET processed == Process(module_bytes)
    IN  IF ~processed.ok
        THEN [err |-> "Ok", res |-> ExecFailure("Preprocessing", <<>>), st |-> st]
        ELSE IF prestate_hash \notin DOMAIN hist
             THEN [err |-> "RootNotFound", res |-> ExecFailure("RootNotFound", <<>>), st |-> st]
             ELSE [err |-> "Ok",
                   res |-> ExecModule(processed.module, NewTc(prestate_hash),
                                      hist[prestate_hash], <<>>),
                   st |-> hist[prestate_hash]]

\* The transforms of an effect applied to state st.
ApplyEffects(st, transforms) ==
    TryFold(st, CHOOSE order \in IterationOrders(DOMAIN transforms) : TRUE, transforms).st

\* run_deploys as it would be if each deploy were checked out at the state
\* the deploy before it produced.
RECURSIVE RunDeploysOnEvolvingRoot(_, _, _, _)
RunDeploysOnEvolvingRoot(st, hist, prestate_hash, deploys) ==
    IF deploys = <<>> THEN [err |-> "Ok", results |-> <<>>, st |-> st]
    ELSE LET first == RunDeployOn(st, hist, Head(deploys), prestate_hash)
         IN  IF first.err # "Ok"
             THEN [err |-> first.err, results |-> <<>>, st |-> first.st]
             ELSE LET evolved == [hist EXCEPT ![prestate_hash] =
                                        ApplyEffects(first.st, first.res.transforms)]
                      rest == RunDeploysOnEvolvingRoot(
                                  first.st,
                                  IF Process(Head(deploys)).ok THEN evolved ELSE hist,
                                  prestate_hash, Tail(deploys))
                  IN  IF rest.err # "Ok"
                      THEN [err |-> rest.err, results |-> <<>>, st |-> rest.st]
                      ELSE [err |-> "Ok", results |-> <<first.res>> \o rest.results,
                            st |-> rest.st]

\* run_deploys: the deploys mapped to run_deploy in list order, every one at
\* the prestate of the request; the first RootNotFound ends the iteration
RECURSIVE RunDeploys(_, _, _, _)
RunDeploys(st, hist, prestate_hash, deploys) ==
    IF deploys = <<>> THEN [err |-> "Ok", results |-> <<>>, st |-> st]
    ELSE LET first == RunDeployOn(st, hist, Head(deploys), prestate_hash)
         IN  IF first.err # "Ok"
             THEN [err |-> first.err, results |-> <<>>, st |-> first.st]
             ELSE LET rest == RunDeploys(first.st, hist, prestate_hash, Tail(deploys))
                  IN  IF rest.err # "Ok"
                      THEN [err |-> rest.err, results |-> <<>>, st |-> rest.st]
                      ELSE [err |-> "Ok", results |-> <<first.res>> \o rest.results,
                            st |-> rest.st]

Response(call, kind, root, deploys, results) ==
    [call |-> call, kind |-> kind, root |-> root, deploys |-> deploys, results |-> results]

NoResponse == Response("none", "None", NoRoot, <<>>, <<>>)

ExecIdle == response = NoResponse

\* run_deploy as it would be if the effect of a successful deploy were
\* stored under the prestate root.
RunDeployStoresEffect(module_bytes, prestate_hash) ==
    LET r == RunDeployOn(active_state, history, module_bytes, prestate_hash)
    IN  /\ active_state' = r.st
        /\ history' = IF r.err = "Ok" /\ r.res.status = "Success"
                      THEN [history EXCEPT ![prestate_hash] =
                                ApplyEffects(r.st, r.res.transforms)]
                      ELSE history
        /\ result' = Result("run_deploy", r.err, prestate_hash, NoValue)
        /\ response' = IF r.err = "Ok"
                       THEN Response("run_deploy", "Ok", prestate_hash,
                                     <<module_bytes>>, <<r.res>>)
                       ELSE Response("run_deploy", "RootNotFound", prestate_hash,
                                     <<module_bytes>>, <<>>)

\* EngineState::run_deploy
RunDeploy(module_bytes, prestate_hash) ==
    LET r == RunDeployOn(active_state, history, module_bytes, prestate_hash)
    IN  /\ active_state' = r.st
        /\ history' = history
        /\ result' = Result("run_deploy", r.err, prestate_hash, NoValue)
        /\ response' = IF r.err = "Ok"
                       THEN Response("run_deploy", "Ok", prestate_hash,
                                     <<module_bytes>>, <<r.res>>)
                       ELSE Response("run_deploy", "RootNotFound", prestate_hash,
                                     <<module_bytes>>, <<>>)

\* ExecutionEngineService::exec
Exec(prestate_hash, deploys) ==
    LET r == RunDeploys(active_state, history, prestate_hash, deploys)
    IN  /\ active_state' = r.st
        /\ history' = history
        /\ result' = Result("exec", r.err, prestate_hash, NoValue)
        /\ response' = IF r.err = "Ok"
                       THEN Response("exec", "Success", prestate_hash, deploys, r.results)
                       ELSE Response("exec", "MissingParent", prestate_hash, deploys, <<>>)

(***************************************************************************)
(* The transactional trie store (storage/src/history/trie_store). The      *)
(* in-memory and LMDB environments are not among the sources: their        *)
(* transactions follow section 4.4 of the specification and the calls of   *)
(* trie_store/tests.rs.                                                    *)
(***************************************************************************)
Backends == {"in_memory", "lmdb"}

\* Trie::Leaf { key, value }
Leaf(key, value) == [key |-> key, value |-> value]

\* Trie::Node { pointer_block } and Trie::Extension { affix, pointer }
Node(pointer_block) == [pointer_block |-> pointer_block]
Extension(affix, pointer) == [affix |-> affix, pointer |-> pointer]

\* Pointer::LeafPointer(hash) and Pointer::NodePointer(hash), by their tag
LeafPointer(hash) == [tag |-> 0, hash |-> hash]
NodePointer(hash) == [tag |-> 1, hash |-> hash]

\* ToBytes for Pointer: the tag, then the hash
PointerToBytes(pointer) == U32ToBytes(pointer.tag) \o BytesToBytes(pointer.hash)

\* ToBytes for PointerBlock: the RADIX entries, each an Option<Pointer>
OptionPointerToBytes(maybe_pointer) ==
    IF maybe_pointer.some THEN <<1>> \o PointerToBytes(maybe_pointer.v) ELSE <<0>>

RECURSIVE ConcatPointers(_, _)
ConcatPointers(block, i) ==
    IF i > Len(block) THEN <<>>
    ELSE OptionPointerToBytes(block[i]) \o ConcatPointers(block, i + 1)
PointerBlockToBytes(block) == U32ToBytes(Len(block)) \o ConcatPointers(block, 1)

\* ToBytes for Trie: the tag, then the fields of the variant
TrieToBytes(trie) ==
    CASE "pointer_block" \in DOMAIN trie ->
            U32ToBytes(1) \o PointerBlockToBytes(trie.pointer_block)
      [] "affix" \in DOMAIN trie ->
            U32ToBytes(2) \o BytesToBytes(trie.affix) \o PointerToBytes(trie.pointer)
      [] OTHER -> U32ToBytes(0) \o BytesToBytes(trie.key) \o BytesToBytes(trie.value)

\* TestData(hash, trie)
TestData(trie) == [hash |-> Blake2b(TrieToBytes(trie)), trie |-> trie]

\* create_data: the leaves of the test data, values shortened to one byte
create_data ==
    <<TestData(Leaf(<<0, 0, 0>>, <<1>>)),
      TestData(Leaf(<<1, 0, 0>>, <<2>>)),
      TestData(Leaf(<<1, 0, 1>>, <<3>>)),
      TestData(Leaf(<<2, 0, 0>>, <<4>>))>>

Items == {create_data[i] : i \in 1..NumItems}

None == Leaf(<<>>, <<>>)
NoTxn == [open |-> FALSE, puts |-> EmptyMap]
NoRead == [hash |-> NoRoot, value |-> None]

TrieIdle ==
    /\ env = [backend |-> "none", data |-> EmptyMap]
    /\ txn = NoTxn
    /\ readResult = NoRead
    /\ committedPuts = {}
    /\ droppedPuts = {}

\* InMemoryEnvironment::new / LmdbEnvironment::new: an empty environment
NewEnvironment ==
    /\ env \in {[backend |-> b, data |-> EmptyMap] : b \in Backends}
    /\ txn = NoTxn
    /\ readResult = NoRead
    /\ committedPuts = {}
    /\ droppedPuts = {}

\* TransactionSource::create_read_write_txn: write transactions are serialized
CreateReadWriteTxn ==
    /\ ~txn.open
    /\ txn' = [open |-> TRUE, puts |-> EmptyMap]
    /\ UNCHANGED <<env, readResult, committedPuts, droppedPuts>>

\* TrieStore::put in the read-write transaction
Put(item) ==
    /\ txn.open
    /\ txn' = [txn EXCEPT !.puts = Insert(@, item.hash, item.trie)]
    /\ UNCHANGED <<env, readResult, committedPuts, droppedPuts>>

\* Transaction::commit of the read-write transaction
TxnCommit ==
    /\ txn.open
    /\ env' = [env EXCEPT !.data = Extend(@, txn.puts)]
    /\ committedPuts' = committedPuts \cup DOMAIN txn.puts
    /\ txn' = NoTxn
    /\ UNCHANGED <<readResult, droppedPuts>>

\* The end of a transaction as it would be if its puts were written straight
\* to the environment: ending without commit keeps them.
TxnDropKeepsPuts ==
    /\ txn.open
    /\ env' = [env EXCEPT !.data = Extend(@, txn.puts)]
    /\ droppedPuts' = droppedPuts \cup DOMAIN txn.puts
    /\ txn' = NoTxn
    /\ UNCHANGED <<readResult, committedPuts>>

\* The read-write transaction goes out of scope without commit
TxnDrop ==
    /\ txn.open
    /\ droppedPuts' = droppedPuts \cup DOMAIN txn.puts
    /\ txn' = NoTxn
    /\ UNCHANGED <<env, readResult, committedPuts>>

\* create_read_txn, TrieStore::get of one hash, commit of the read transaction
ReadTxnGet(hash) ==
    /\ ~txn.open
    /\ readResult' = [hash |-> hash, value |-> Lookup(env.data, hash, None)]
    /\ UNCHANGED <<env, txn, committedPuts, droppedPuts>>

(***************************************************************************)
(* Deserialization (FromBytes): a parse returns the value and the bytes    *)
(* that follow it, or an error.                                            *)
(***************************************************************************)
Parsed(v, rem) == [ok |-> TRUE, v |-> v, rem |-> rem]
\* bytesrepr::Error; a failed parse is handed on as it is (the ? operator)
Failed(error) == [ok |-> FALSE, error |-> error, v |-> <<>>, rem |-> <<>>]
FormattingError == Failed("FormattingError")
EarlyEndOfStream == Failed("EarlyEndOfStream")

Drop(bytes, n) == SubSeq(bytes, n + 1, Len(bytes))
Take(bytes, n) == SubSeq(bytes, 1, n)

\* FromBytes for u32: four bytes, little-endian
U32FromBytes(bytes) ==
    IF Len(bytes) < 4 THEN EarlyEndOfStream
    ELSE Parsed(bytes[1] + 256 * bytes[2] + 65536 * bytes[3] + 16777216 * bytes[4],
                Drop(bytes, 4))

\* FromBytes for Vec<u8>: a u32 length, then that many bytes
BytesFromBytes(bytes) ==
    LET size == U32FromBytes(bytes)
    IN  IF ~size.ok THEN size
        ELSE IF Len(size.rem) < size.v THEN EarlyEndOfStream
        ELSE Parsed(Take(size.rem, size.v), Drop(size.rem, size.v))

\* FromBytes for u8
U8FromBytes(bytes) ==
    IF bytes = <<>> THEN EarlyEndOfStream ELSE Parsed(bytes[1], Drop(bytes, 1))

\* FromBytes for i32: four bytes, little-endian, two's complement
I32FromBytes(bytes) ==
    IF Len(bytes) < 4 THEN EarlyEndOfStream
    ELSE IF bytes[4] < 128
    THEN Parsed(bytes[1] + 256 * bytes[2] + 65536 * bytes[3] + 16777216 * bytes[4],
                Drop(bytes, 4))
    ELSE Parsed((bytes[1] + 256 * bytes[2] + 65536 * bytes[3] + 16777216 * (bytes[4] - 128))
                    - 1073741824 - 1073741824,
                Drop(bytes, 4))

\* FromBytes for [u8; 32]: the bytes with their length, which must be 32
N32 == 32
OfLength(arr, n) == IF arr.ok /\ Len(arr.v) # n THEN FormattingError ELSE arr
ArrayFromBytes(bytes) == OfLength(BytesFromBytes(bytes), N32)

\* FromBytes for Vec<i32> and Vec<String>: the count, then the elements
RECURSIVE I32sFromBytes(_, _, _)
I32sFromBytes(size, stream, sofar) ==
    IF size = 0 THEN Parsed(sofar, stream)
    ELSE LET t == I32FromBytes(stream)
         IN  IF ~t.ok THEN t
             ELSE I32sFromBytes(size - 1, t.rem, Append(sofar, t.v))
ListInt32FromBytes(bytes) ==
    LET size == U32FromBytes(bytes)
    IN  IF ~size.ok THEN size ELSE I32sFromBytes(size.v, size.rem, <<>>)

RECURSIVE StringsFromBytes(_, _, _)
StringsFromBytes(size, stream, sofar) ==
    IF size = 0 THEN Parsed(sofar, stream)
    ELSE LET t == BytesFromBytes(stream)
         IN  IF ~t.ok THEN t
             ELSE StringsFromBytes(size - 1, t.rem, Append(sofar, t.v))
ListStringFromBytes(bytes) ==
    LET size == U32FromBytes(bytes)
    IN  IF ~size.ok THEN size ELSE StringsFromBytes(size.v, size.rem, <<>>)

\* FromBytes for AccessRights: a byte that from_bits accepts, which is one
\* with no bit outside READ | WRITE | ADD
AccessRightsFromBytes(bytes) ==
    LET id == U8FromBytes(bytes)
    IN  IF id.ok /\ id.v > 7 THEN FormattingError ELSE id

\* FromBytes for Option<AccessRights>
OptionRightsFromBytes(bytes) ==
    LET tag == U8FromBytes(bytes)
    IN  IF ~tag.ok THEN tag
        ELSE IF tag.v = 0 THEN Parsed(OptNone, tag.rem)
        ELSE IF tag.v = 1
        THEN LET rights == AccessRightsFromBytes(tag.rem)
             IN  IF ~rights.ok THEN rights
                 ELSE Parsed(OptSome(rights.v), rights.rem)
        ELSE FormattingError

\* FromBytes for Key
KeyFromBytes(bytes) ==
    LET id == U8FromBytes(bytes)
    IN  IF ~id.ok THEN id
        ELSE CASE id.v = ACCOUNT_ID ->
                    LET addr == ArrayFromBytes(id.rem)
                    IN  IF ~addr.ok THEN addr
                        ELSE Parsed(Account(addr.v), addr.rem)
               [] id.v = HASH_ID ->
                    LET hash == ArrayFromBytes(id.rem)
                    IN  IF ~hash.ok THEN hash
                        ELSE Parsed(Hash(hash.v), hash.rem)
               [] id.v = UREF_ID ->
                    LET rf == ArrayFromBytes(id.rem)
                    IN  IF ~rf.ok THEN rf
                        ELSE LET maybe_access_rights == OptionRightsFromBytes(rf.rem)
                             IN  IF ~maybe_access_rights.ok THEN maybe_access_rights
                                 ELSE Parsed(KeyURef(rf.v, maybe_access_rights.v),
                                             maybe_access_rights.rem)
               [] id.v = LOCAL_ID ->
                    LET seed == ArrayFromBytes(id.rem)
                    IN  IF ~seed.ok THEN seed
                        ELSE LET key_hash == ArrayFromBytes(seed.rem)
                             IN  IF ~key_hash.ok THEN key_hash
                                 ELSE Parsed(KeyLocal(seed.v, key_hash.v), key_hash.rem)
               [] OTHER -> FormattingError

\* FromBytes for Value
ValueFromBytes(bytes) ==
    LET id == U8FromBytes(bytes)
    IN  IF ~id.ok THEN id
        ELSE CASE id.v = INT32_ID ->
                    LET i == I32FromBytes(id.rem)
                    IN  IF ~i.ok THEN i ELSE Parsed(Int32(i.v), i.rem)
               [] id.v = BYTEARRAY_ID ->
                    LET arr == BytesFromBytes(id.rem)
                    IN  IF ~arr.ok THEN arr ELSE Parsed(ByteArray(arr.v), arr.rem)
               [] id.v = LISTINT32_ID ->
                    LET arr == ListInt32FromBytes(id.rem)
                    IN  IF ~arr.ok THEN arr ELSE Parsed(ListInt32(arr.v), arr.rem)
               [] id.v = STRING_ID ->
                    LET str == BytesFromBytes(id.rem)
                    IN  IF ~str.ok THEN str ELSE Parsed(StringV(str.v), str.rem)
               [] id.v = NAMEDKEY_ID ->
                    LET name == BytesFromBytes(id.rem)
                    IN  IF ~name.ok THEN name
                        ELSE LET key == KeyFromBytes(name.rem)
                             IN  IF ~key.ok THEN key
                                 ELSE Parsed(NamedKey(name.v, key.v), key.rem)
               [] id.v = LISTSTRING_ID ->
                    LET arr == ListStringFromBytes(id.rem)
                    IN  IF ~arr.ok THEN arr ELSE Parsed(ListString(arr.v), arr.rem)
               [] OTHER -> FormattingError

\* U512::from_little_endian
RECURSIVE FromLittleEndian(_)
FromLittleEndian(value) ==
    IF value = <<>> THEN 0 ELSE Head(value) + 256 * FromLittleEndian(Tail(value))

\* FromBytes for U512 as it would be without the check of the count
U512FromBytesAnyCount(bytes) ==
    LET num_bytes == U8FromBytes(bytes)
    IN  IF ~num_bytes.ok THEN num_bytes
        ELSE IF Len(num_bytes.rem) < num_bytes.v THEN EarlyEndOfStream
        ELSE Parsed(FromLittleEndian(Take(num_bytes.rem, num_bytes.v)),
                    Drop(num_bytes.rem, num_bytes.v))

\* FromBytes for U512: the count, at most 64, then that many bytes
U512FromBytes(bytes) ==
    LET num_bytes == U8FromBytes(bytes)
    IN  IF ~num_bytes.ok THEN num_bytes
        ELSE IF num_bytes.v > U512_BYTES THEN FormattingError
        ELSE IF Len(num_bytes.rem) < num_bytes.v THEN EarlyEndOfStream
        ELSE Parsed(FromLittleEndian(Take(num_bytes.rem, num_bytes.v)),
                    Drop(num_bytes.rem, num_bytes.v))

\* FromBytes for Pointer
PointerFromBytes(bytes) ==
    LET tag == U32FromBytes(bytes)
    IN  IF ~tag.ok THEN tag
        ELSE CASE tag.v = 0 ->
                    LET hash == ArrayFromBytes(tag.rem)
                    IN  IF ~hash.ok THEN hash
                        ELSE Parsed(LeafPointer(hash.v), hash.rem)
               [] tag.v = 1 ->
                    LET hash == ArrayFromBytes(tag.rem)
                    IN  IF ~hash.ok THEN hash
                        ELSE Parsed(NodePointer(hash.v), hash.rem)
               [] OTHER -> FormattingError

\* FromBytes for Option<Pointer>
OptionPointerFromBytes(bytes) ==
    LET tag == U8FromBytes(bytes)
    IN  IF ~tag.ok THEN tag
        ELSE IF tag.v = 0 THEN Parsed(OptNone, tag.rem)
        ELSE IF tag.v = 1
        THEN LET pointer == PointerFromBytes(tag.rem)
             IN  IF ~pointer.ok THEN pointer
                 ELSE Parsed(OptSome(pointer.v), pointer.rem)
        ELSE FormattingError

\* FromBytes for PointerBlock: RADIX entries
RECURSIVE PointersFromBytes(_, _, _)
PointersFromBytes(size, stream, sofar) ==
    IF size = 0 THEN Parsed(sofar, stream)
    ELSE LET t == OptionPointerFromBytes(stream)
         IN  IF ~t.ok THEN t
             ELSE PointersFromBytes(size - 1, t.rem, Append(sofar, t.v))
PointerBlockFromBytes(bytes) ==
    LET size == U32FromBytes(bytes)
    IN  IF ~size.ok THEN size
        ELSE IF size.v # RADIX THEN FormattingError
        ELSE PointersFromBytes(size.v, size.rem, <<>>)

\* FromBytes for Trie
TrieFromBytes(bytes) ==
    LET tag == U32FromBytes(bytes)
    IN  IF ~tag.ok THEN tag
        ELSE CASE tag.v = 0 ->
                    LET key == BytesFromBytes(tag.rem)
                    IN  IF ~key.ok THEN key
                        ELSE LET value == BytesFromBytes(key.rem)
                             IN  IF ~value.ok THEN value
                                 ELSE Parsed(Leaf(key.v, value.v), value.rem)
               [] tag.v = 1 ->
                    LET pointer_block == PointerBlockFromBytes(tag.rem)
                    IN  IF ~pointer_block.ok THEN pointer_block
                        ELSE Parsed(Node(pointer_block.v), pointer_block.rem)
               [] tag.v = 2 ->
                    LET affix == BytesFromBytes(tag.rem)
                    IN  IF ~affix.ok THEN affix
                        ELSE LET pointer == PointerFromBytes(affix.rem)
                             IN  IF ~pointer.ok THEN pointer
                                 ELSE Parsed(Extension(affix.v, pointer.v), pointer.rem)
               [] OTHER -> FormattingError

\* bytesrepr::deserialize: the whole of the bytes is one value
WholeOf(parsed) == IF parsed.ok /\ parsed.rem = <<>> THEN parsed.v ELSE None
DeserializeTrie(bytes) == WholeOf(TrieFromBytes(bytes))

(***************************************************************************)
(* The two backends of the trie store side by side, each storing the       *)
(* serialized trie under its hash. The in-memory transaction works on a    *)
(* copy of the map that replaces it at commit; the LMDB transaction keeps  *)
(* its puts over the committed data until commit.                          *)
(***************************************************************************)
\* InMemoryEnvironment::new
MemNew == [data |-> EmptyMap, open |-> FALSE, view |-> EmptyMap]

MemCreateReadWriteTxn(e) == [e EXCEPT !.open = TRUE, !.view = e.data]

\* InMemoryTrieStore::put
MemPut(e, hash, trie) == [e EXCEPT !.view = Insert(@, hash, TrieToBytes(trie))]

\* InMemoryTrieStore::get, in the read-write transaction if one is open and
\* in a read transaction otherwise
MemGet(e, hash) ==
    LET source == IF e.open THEN e.view ELSE e.data
    IN  IF hash \in DOMAIN source THEN DeserializeTrie(source[hash]) ELSE None

MemCommit(e) == [e EXCEPT !.data = Extend(@, e.view), !.open = FALSE, !.view = EmptyMap]

MemDrop(e) == [e EXCEPT !.open = FALSE, !.view = EmptyMap]

\* LmdbEnvironment::new
LmdbNew == [data |-> EmptyMap, open |-> FALSE, puts |-> EmptyMap]

LmdbCreateReadWriteTxn(e) == [e EXCEPT !.open = TRUE, !.puts = EmptyMap]

\* LmdbTrieStore::put
LmdbPut(e, hash, trie) == [e EXCEPT !.puts = Insert(@, hash, TrieToBytes(trie))]

\* get as it would be if a transaction read the committed data only.
LmdbGetCommitted(e, hash) ==
    IF hash \in DOMAIN e.data THEN DeserializeTrie(e.data[hash]) ELSE None

\* LmdbTrieStore::get, in the read-write transaction if one is open and in a
\* read transaction otherwise
LmdbGet(e, hash) ==
    IF e.open /\ hash \in DOMAIN e.puts THEN DeserializeTrie(e.puts[hash])
    ELSE IF hash \in DOMAIN e.data THEN DeserializeTrie(e.data[hash])
    ELSE None

LmdbCommit(e) == [e EXCEPT !.data = Extend(@, e.puts), !.open = FALSE, !.puts = EmptyMap]

LmdbDrop(e) == [e EXCEPT !.open = FALSE, !.puts = EmptyMap]

NoPairResult == [keys |-> <<>>, mem |-> <<>>, lmdb |-> <<>>, inTxn |-> FALSE]

PairIdle ==
    /\ mem = MemNew
    /\ lmdb = LmdbNew
    /\ pending = EmptyMap
    /\ pairResult = NoPairResult

\* The lists of hashes a get_many is called with.
KeyLists == UNION {[1..n -> {item.hash : item \in Items}] : n \in 1..2}

\* create_read_write_txn on both environments
PairCreateReadWriteTxn ==
    /\ ~mem.open
    /\ mem' = MemCreateReadWriteTxn(mem)
    /\ lmdb' = LmdbCreateReadWriteTxn(lmdb)
    /\ pending' = EmptyMap
    /\ pairResult' = NoPairResult

\* put of one item in the open transaction of both environments
PairPut(item) ==
    /\ mem.open
    /\ mem' = MemPut(mem, item.hash, item.trie)
    /\ lmdb' = LmdbPut(lmdb, item.hash, item.trie)
    /\ pending' = Insert(pending, item.hash, item.trie)
    /\ pairResult' = NoPairResult

\* get_many on both environments: a get of every hash, in the order given
PairGetMany(keys) ==
    /\ pairResult' = [keys |-> keys,
                      mem |-> [i \in 1..Len(keys) |-> MemGet(mem, keys[i])],
                      lmdb |-> [i \in 1..Len(keys) |-> LmdbGet(lmdb, keys[i])],
                      inTxn |-> mem.open]
    /\ UNCHANGED <<mem, lmdb, pending>>

\* commit of the open transaction of both environments
PairCommit ==
    /\ mem.open
    /\ mem' = MemCommit(mem)
    /\ lmdb' = LmdbCommit(lmdb)
    /\ pending' = EmptyMap
    /\ pairResult' = NoPairResult

\* the open transaction of both environments ends without commit
PairDrop ==
    /\ mem.open
    /\ mem' = MemDrop(mem)
    /\ lmdb' = LmdbDrop(lmdb)
    /\ pending' = EmptyMap
    /\ pairResult' = NoPairResult

(***************************************************************************)
(* The transform algebra evaluated on drawn inputs: composition and        *)
(* application (section 4.1 of the specification).                         *)
(***************************************************************************)
\* The named-key maps of the contracts and of AddKeys.
NamedKeyMaps ==
    {[name \in {"a"} |-> Account(<<12>>)], [name \in {"a", "b"} |-> Hash(<<42>>)]}

\* The values and transforms the algebra is evaluated on.
AlgValues ==
    {Int32(I32_MAX), Int32(-I32_MAX - 1), Int32(0), StringV(<<97>>),
     UInt512(1), UInt512(U512_MAX), Contract(EmptyMap)}
        \cup {Contract(m) : m \in NamedKeyMaps}

AlgTransforms ==
    {Identity, Failure, AddInt32(1), AddInt32(-1), AddInt32(I32_MAX),
     AddUInt512(1), AddUInt512(U512_MAX)}
        \cup {AddKeys(m) : m \in NamedKeyMaps}
        \cup {Write(v) : v \in {Int32(I32_MAX), Int32(0), StringV(<<97>>), UInt512(1),
                                Contract(EmptyMap)}}

NoOutcome == [ok |-> FALSE, v |-> NoValue]

AlgIdle == alg = [v |-> NoValue, a |-> Identity, b |-> Identity, c |-> Identity,
                  op |-> "idle", left |-> NoOutcome, right |-> NoOutcome]

\* A value and three transforms are drawn.
AlgDraw ==
    alg \in {[v |-> v, a |-> a, b |-> b, c |-> c,
              op |-> "none", left |-> NoOutcome, right |-> NoOutcome] :
                v \in AlgValues, a \in AlgTransforms, b \in AlgTransforms, c \in {Identity}}

\* compose(compose(a, b), c) beside compose(a, compose(b, c))
AlgComposeThree(c) ==
    /\ alg.op = "none"
    /\ alg' = [alg EXCEPT !.op = "compose", !.c = c,
                          !.left = Compose(Compose(alg.a, alg.b), c),
                          !.right = Compose(alg.a, Compose(alg.b, c))]

\* apply(v, compose(a, b)) beside apply(apply(v, a), b)
AlgApplyComposed ==
    /\ alg.op = "none"
    /\ alg' = [alg EXCEPT !.op = "apply",
                          !.left = Apply(Compose(alg.a, alg.b), alg.v),
                          !.right = IF Apply(alg.a, alg.v).ok
                                    THEN Apply(alg.b, Apply(alg.a, alg.v).v)
                                    ELSE Apply(alg.a, alg.v)]

\* apply(v, a)
AlgApply ==
    /\ alg.op = "none"
    /\ alg' = [alg EXCEPT !.op = "add", !.left = Apply(alg.a, alg.v)]

(***************************************************************************)
(* The host runtime of a deploy (engine-core/src/runtime/externals.rs):     *)
(* the Wasm code of a deploy calls into the host through invoke_index. A   *)
(* host call returns to the Wasm caller, or it traps, which ends the       *)
(* execution of the deploy with an error, or the host panics.              *)
(***************************************************************************)
\* Error::GasLimit and Error::Revert(status), as the error of a trap
GasLimit == [kind |-> "GasLimit", code |-> 0]
Revert(status) == [kind |-> "Revert", code |-> status]

\* The statuses contracts revert with.
RevertCodes == {101, 102}
\* The gas limits deploys are sent with.
GasLimits == 1..MaxGas

\* The bytes of the purse that create_purse makes.
PurseBytes == <<2, 7, 0, 7>>

HostCallOf(op, arg, outcome) == [op |-> op, arg |-> arg, outcome |-> outcome]
NoHostCall == HostCallOf("none", 0, "none")

NoRuntime == [status |-> "idle", used |-> 0, limit |-> 0, tc |-> NoTc]

RtIdle == rt = NoRuntime /\ hostCall = NoHostCall /\ deployResults = <<>>

\* The next deploy of the request starts executing with a fresh tracking
\* copy and no gas used. After a panic no deploy of the request runs.
StartDeploy(limit) ==
    /\ rt.status \in {"idle", "done", "trapped"}
    /\ Len(deployResults) < MaxDeploys
    /\ rt' = [status |-> "running", used |-> 0, limit |-> limit, tc |-> NewTc(NoRoot)]
    /\ hostCall' = HostCallOf("start", limit, "none")
    /\ UNCHANGED deployResults

\* A host call of the running deploy that ends in a trap: the execution of
\* the deploy ends, and its result is the failure without the staged effect.
Trap(op, arg, error) ==
    /\ hostCall' = HostCallOf(op, arg, "trap")
    /\ deployResults' = Append(deployResults, ExecFailure(error, <<>>))

\* Runtime::gas behind GasFuncIndex: the amount is charged, and the call
\* traps when the limit is exceeded.
GasTrapsAtLimit(n) ==
    /\ rt.status = "running"
    /\ IF rt.used + n >= rt.limit
       THEN /\ rt' = [rt EXCEPT !.used = rt.used + n, !.status = "trapped"]
            /\ Trap("gas", n, GasLimit)
       ELSE /\ rt' = [rt EXCEPT !.used = rt.used + n]
            /\ hostCall' = HostCallOf("gas", n, "returned")
            /\ UNCHANGED deployResults

InvokeGas(n) ==
    /\ rt.status = "running"
    /\ IF rt.used + n > rt.limit
       THEN /\ rt' = [rt EXCEPT !.used = rt.used + n, !.status = "trapped"]
            /\ Trap("gas", n, GasLimit)
       ELSE /\ rt' = [rt EXCEPT !.used = rt.used + n]
            /\ hostCall' = HostCallOf("gas", n, "returned")
            /\ UNCHANGED deployResults

\* WriteFuncIndex: the write is staged in the tracking copy of the deploy.
InvokeWrite(k, v) ==
    /\ rt.status = "running"
    /\ rt' = [rt EXCEPT !.tc = TcWriteOn(rt.tc, k, v).tc]
    /\ hostCall' = HostCallOf("write", 0, "returned")
    /\ UNCHANGED deployResults

\* RevertFuncIndex: Err(self.revert(status)), the trap is all the call gives.
RevertReturns(status) ==
    /\ rt.status = "running"
    /\ hostCall' = HostCallOf("revert", status, "returned")
    /\ UNCHANGED <<rt, deployResults>>

InvokeRevert(status) ==
    /\ rt.status = "running"
    /\ rt' = [rt EXCEPT !.status = "trapped"]
    /\ Trap("revert", status, Revert(status))

\* CreatePurseIndex: the purse is made and serialized, then
\* assert_eq!(dest_size, purse_bytes.len() as u32) panics on a difference.
InvokeCreatePurse(dest_size) ==
    /\ rt.status = "running"
    /\ IF dest_size # Len(PurseBytes)
       THEN /\ rt' = [rt EXCEPT !.status = "panicked"]
            /\ hostCall' = HostCallOf("create_purse", dest_size, "panic")
       ELSE /\ rt' = rt
            /\ hostCall' = HostCallOf("create_purse", dest_size, "returned")
    /\ UNCHANGED deployResults

\* The exported call function returns: the deploy succeeds with its effect.
ModuleReturns ==
    /\ rt.status = "running"
    /\ rt' = [rt EXCEPT !.status = "done"]
    /\ hostCall' = HostCallOf("return", 0, "none")
    /\ deployResults' = Append(deployResults, Success(rt.tc, <<>>))

(***************************************************************************)
(* URefs and the capability set of a call frame (common/src/key.rs,        *)
(* engine-core/src/runtime/externals.rs). Each frame holds known_urefs,    *)
(* the rights it has per URef address; every URef the Wasm code passes to  *)
(* the host is validated against it.                                       *)
(***************************************************************************)
READ == 1
WRITE == 2
ADD == 4

\* AccessRights as the set of its bits, and back
Bits(rights) == {b \in {READ, WRITE, ADD} : (rights \div b) % 2 = 1}
Mask(bits) ==
    (IF READ \in bits THEN READ ELSE 0) + (IF WRITE \in bits THEN WRITE ELSE 0)
        + (IF ADD \in bits THEN ADD ELSE 0)
READ_ADD_WRITE == Mask({READ, WRITE, ADD})

is_readable(rights) == Mask(Bits(rights) \cap {READ}) = READ
\* is_writeable as it would be with a comparison in place of the mask
is_at_least_write(rights) == rights >= WRITE
is_writeable(rights) == Mask(Bits(rights) \cap {WRITE}) = WRITE
is_addable(rights) == Mask(Bits(rights) \cap {ADD}) = ADD

\* Key::URef(addr, rights)
URef(addr, rights) == [addr |-> addr, rights |-> rights]

\* The addresses of the URefs in the state before the deploy, and the ones
\* new_uref allocates
ExistingAddrs == {1, 2}
FreshAddrs == {10 + i : i \in 1..MaxFresh}
\* The URefs the Wasm code names in host calls.
URefs ==
    {URef(addr, rights) : addr \in ExistingAddrs, rights \in {READ, Mask({READ, WRITE}), READ_ADD_WRITE}}
        \cup {URef(addr, READ_ADD_WRITE) : addr \in FreshAddrs}

\* The known_urefs the session code starts with (the account's), and the
\* ones stored with the contract it can call.
SessionKnown == Insert(EmptyMap, 1, READ)
ContractKnown == Insert(Insert(EmptyMap, 1, Mask({READ, WRITE})), 2, READ_ADD_WRITE)

\* The rights a frame holds on an address, none when the address is unknown
Held(known, addr) == Lookup(known, addr, 0)

\* A URef is added to known_urefs: the rights join the ones already held.
Grant(known, uref) ==
    Insert(known, uref.addr, Mask(Bits(Held(known, uref.addr)) \cup Bits(uref.rights)))

\* Several URefs are added to known_urefs.
RECURSIVE ExtendKnown(_, _)
ExtendKnown(known, urefs) ==
    IF urefs = {} THEN known
    ELSE LET uref == CHOOSE u \in urefs : TRUE
         IN  ExtendKnown(Grant(known, uref), urefs \ {uref})

\* The validation of a URef that comes from Wasm: it is in known_urefs, with
\* rights that are a subset of the rights held.
ValidateMembershipOnly(known, uref) == uref.addr \in DOMAIN known

ValidateURef(known, uref) ==
    /\ uref.addr \in DOMAIN known
    /\ Bits(uref.rights) \subseteq Bits(Held(known, uref.addr))

\* A host call with the URefs it named
URefCallOf(op, urefs, outcome) == [op |-> op, urefs |-> urefs, outcome |-> outcome]

\* The URefs passed with a call_contract or returned with a ret: one at most.
PassedURefs == {{}} \cup {{uref} : uref \in URefs}

URefIdle == frames = <<>> /\ urefCall = URefCallOf("none", {}, "none") /\ stagedURefs = {}

\* The session code of a deploy starts in a frame of its own.
URefStart ==
    /\ frames = <<[known |-> SessionKnown]>>
    /\ urefCall = URefCallOf("start", {}, "none")
    /\ stagedURefs = {}

Running == frames # <<>> /\ urefCall.outcome \notin {"ForgedReference", "InvalidAccess"}
Current == frames[Len(frames)]

\* What a host function that uses a URef does with it: ForgedReference for a
\* URef that fails validation, InvalidAccess for one without the right the
\* function requires.
Check(uref, required) ==
    IF ~ValidateURef(Current.known, uref) THEN "ForgedReference"
    ELSE IF ~required THEN "InvalidAccess"
    ELSE "Ok"

\* read(key): requires READ; nothing is staged.
URefRead(uref) ==
    /\ Running
    /\ urefCall' = URefCallOf("read", {uref}, Check(uref, is_readable(uref.rights)))
    /\ UNCHANGED <<frames, stagedURefs>>

\* write(key, value): requires WRITE; the write is staged.
URefWrite(uref) ==
    /\ Running
    /\ urefCall' = URefCallOf("write", {uref}, Check(uref, is_writeable(uref.rights)))
    /\ stagedURefs' = IF urefCall'.outcome = "Ok" THEN stagedURefs \cup {uref.addr} ELSE stagedURefs
    /\ UNCHANGED frames

\* add(key, value): requires ADD; the add is staged.
URefAdd(uref) ==
    /\ Running
    /\ urefCall' = URefCallOf("add", {uref}, Check(uref, is_addable(uref.rights)))
    /\ stagedURefs' = IF urefCall'.outcome = "Ok" THEN stagedURefs \cup {uref.addr} ELSE stagedURefs
    /\ UNCHANGED frames

\* is_valid_uref(uref): the validation as a value, nothing else
IsValidURef(uref) ==
    /\ Running
    /\ urefCall' = URefCallOf("is_valid_uref", {uref},
                              IF ValidateURef(Current.known, uref) THEN "true" ELSE "false")
    /\ UNCHANGED <<frames, stagedURefs>>

\* new_uref(value): a fresh address with READ_ADD_WRITE, written and known
NewURef ==
    /\ Running
    /\ \E addr \in FreshAddrs :
          /\ \A i \in 1..Len(frames) : addr \notin DOMAIN frames[i].known
          /\ addr \notin stagedURefs
          /\ \A other \in FreshAddrs : other < addr => other \in stagedURefs
          /\ frames' = [frames EXCEPT ![Len(frames)].known = Grant(@, URef(addr, READ_ADD_WRITE))]
          /\ stagedURefs' = stagedURefs \cup {addr}
          /\ urefCall' = URefCallOf("new_uref", {URef(addr, READ_ADD_WRITE)}, "Ok")

\* call_contract(contract, args, extra_urefs): the URefs passed are validated
\* against the caller's known_urefs; the new frame knows the URefs stored
\* with the contract and the ones passed.
CallContract(passed) ==
    /\ Running
    /\ Len(frames) < MaxDepth
    /\ IF \A uref \in passed : ValidateURef(Current.known, uref)
       THEN /\ frames' = Append(frames, [known |-> ExtendKnown(ContractKnown, passed)])
            /\ urefCall' = URefCallOf("call_contract", passed, "Ok")
       ELSE /\ urefCall' = URefCallOf("call_contract", passed, "ForgedReference")
            /\ UNCHANGED frames
    /\ UNCHANGED stagedURefs

\* ret(value, extra_urefs): the URefs returned are validated against the
\* callee's known_urefs and become known to the caller.
Ret(returned) ==
    /\ Running
    /\ Len(frames) > 1
    /\ IF \A uref \in returned : ValidateURef(Current.known, uref)
       THEN /\ frames' = [SubSeq(frames, 1, Len(frames) - 1) EXCEPT
                            ![Len(frames) - 1].known = ExtendKnown(@, returned)]
            /\ urefCall' = URefCallOf("ret", returned, "Ok")
       ELSE /\ urefCall' = URefCallOf("ret", returned, "ForgedReference")
            /\ UNCHANGED frames
    /\ UNCHANGED stagedURefs

(***************************************************************************)
(* The gRPC service (comm/src/engine_server/mod.rs): query, exec and       *)
(* commit take the fields of a request as they come off the wire.          *)
(***************************************************************************)
BLAKE2B_DIGEST_LENGTH == 32

\* The bytes of a hash field of a request: a digest, cut or kept at a length
HashField(digest, len) == [digest |-> digest, len |-> len]
HashLengths == {BLAKE2B_DIGEST_LENGTH, BLAKE2B_DIGEST_LENGTH - 1}

\* TryFrom<&[u8]> for Blake2bHash: an array of 32 bytes from a slice of
\* exactly that length
TryIntoBlake2bHash(slice) ==
    IF slice.len = BLAKE2B_DIGEST_LENGTH
    THEN [ok |-> TRUE, hash |-> slice.digest]
    ELSE [ok |-> FALSE, hash |-> NoRoot]

\* WasmCosts::from_version: the costs of a protocol version, of version 1 only
ProtocolVersions == {1, 2}
WasmCostsFromVersion(version) == [some |-> version = 1]

\* ipc::Deploy: the session code and the address field
Deploy(code, address_len) == [code |-> code, address_len |-> address_len]
AddressLengths == {32, 20}
RECURSIVE DeploysUpTo(_)
DeploysUpTo(n) ==
    IF n = 0 THEN {<<>>}
    ELSE DeploysUpTo(n - 1) \cup
         {Append(ds, Deploy(code, len)) :
             ds \in {d \in DeploysUpTo(n - 1) : Len(d) = n - 1},
             code \in {Malformed, Wasm(<<HostRead(Account(<<12>>))>>)}, len \in AddressLengths}
RequestDeploys == DeploysUpTo(MaxDeploys)

\* The effects commit requests carry: a write, or an add to a missing key.
CommitEffects == TcEffectSets \cup {[x \in {Hash(<<42>>)} |-> AddInt32(1)]}

Reply(call, kind, message) == [call |-> call, kind |-> kind, message |-> message]
Panicked(call, message) == Reply(call, "panic", message)
SrvIdle == reply = Reply("none", "none", "")

\* run_deploys: per deploy the address is copied into an array of 32 bytes,
\* copy_from_slice panics on another length, then run_deploy is called; the
\* first RootNotFound ends the iteration.
RECURSIVE RunDeploysOf(_, _, _, _)
RunDeploysOf(st, hist, prestate_hash, deploys) ==
    IF deploys = <<>> THEN [err |-> "Ok", results |-> <<>>, st |-> st]
    ELSE IF Head(deploys).address_len # 32
    THEN [err |-> "panic", results |-> <<>>, st |-> st]
    ELSE LET first == RunDeployOn(st, hist, Head(deploys).code, prestate_hash)
         IN  IF first.err # "Ok"
             THEN [err |-> first.err, results |-> <<>>, st |-> first.st]
             ELSE LET rest == RunDeploysOf(first.st, hist, prestate_hash, Tail(deploys))
                  IN  IF rest.err # "Ok"
                      THEN [err |-> rest.err, results |-> <<>>, st |-> rest.st]
                      ELSE [err |-> "Ok", results |-> <<first.res>> \o rest.results,
                            st |-> rest.st]

\* ExecutionEngineService::query
SrvQuery(state_hash, base_key_parses, k) ==
    LET parsed == TryIntoBlake2bHash(state_hash)
    IN  /\ reply' =
              IF ~parsed.ok THEN Panicked("query", "unwrap on Err(TryFromSliceError)")
              ELSE IF parsed.hash \notin DOMAIN history
              THEN Reply("query", "failure", "Root not found")
              ELSE IF ~base_key_parses THEN Reply("query", "failure", "ParsingError")
              ELSE IF k \notin DOMAIN history[parsed.hash]
              THEN Reply("query", "failure", "Value not found")
              ELSE Reply("query", "success", "")
        /\ UNCHANGED <<active_state, history, result>>

\* What an exec request was answered with: whether its parent state is a
\* root of the history, its deploys, and the deploy results returned
ExecResponse(known, deploys, kind, deploy_results) ==
    [known |-> known, deploys |-> deploys, kind |-> kind, deploy_results |-> deploy_results]
RespIdle == exec_response = ExecResponse(FALSE, <<>>, "none", <<>>)

\* ExecutionEngineService::exec
SrvExec(parent_state_hash, version, deploys) ==
    LET parsed == TryIntoBlake2bHash(parent_state_hash)
        r == RunDeploysOf(active_state, history, parsed.hash, deploys)
    IN  IF ~parsed.ok
        THEN /\ reply' = Panicked("exec", "unwrap on Err(TryFromSliceError)")
             /\ exec_response' = ExecResponse(FALSE, deploys, "panic", <<>>)
             /\ UNCHANGED <<active_state, history, result>>
        ELSE IF ~WasmCostsFromVersion(version).some
        THEN /\ reply' = Panicked("exec", "unwrap on None")
             /\ exec_response' = ExecResponse(parsed.hash \in DOMAIN history, deploys, "panic", <<>>)
             /\ UNCHANGED <<active_state, history, result>>
        ELSE /\ active_state' = r.st
             /\ history' = history
             /\ result' = Result("exec", r.err, parsed.hash, NoValue)
             /\ reply' = CASE r.err = "panic" ->
                                Panicked("exec", "copy_from_slice: lengths differ")
                           [] r.err = "RootNotFound" ->
                                Reply("exec", "missing_parent", "RootNotFound")
                           [] OTHER -> Reply("exec", "success", "")
             /\ exec_response' =
                    ExecResponse(parsed.hash \in DOMAIN history, deploys,
                                 CASE r.err = "panic" -> "panic"
                                   [] r.err = "RootNotFound" -> "missing_parent"
                                   [] OTHER -> "success",
                                 r.results)

\* ExecutionEngineService::commit
SrvCommit(prestate_hash, effects_parse, effects) ==
    LET parsed == TryIntoBlake2bHash(prestate_hash)
    IN  IF ~parsed.ok
        THEN /\ reply' = Panicked("commit", "unwrap on Err(TryFromSliceError)")
             /\ UNCHANGED <<active_state, history, result>>
        ELSE IF ~effects_parse
        THEN /\ reply' = Reply("commit", "failed_transform", "ParsingError")
             /\ UNCHANGED <<active_state, history, result>>
        ELSE IF parsed.hash \notin DOMAIN history
        THEN /\ reply' = Reply("commit", "missing_prestate", "RootNotFound")
             /\ result' = Result("checkout", "RootNotFound", parsed.hash, NoValue)
             /\ UNCHANGED <<active_state, history>>
        ELSE \E order \in IterationOrders(DOMAIN effects) :
                LET folded == TryFold(history[parsed.hash], order, effects)
                IN  /\ active_state' = folded.st
                    /\ IF folded.err = "Ok"
                       THEN \E iter \in IterationOrders(DOMAIN folded.st) :
                                LET hash == RootHash(folded.st, iter)
                                IN  /\ Cardinality(DOMAIN history \cup {hash}) <= MaxRoots
                                    /\ history' = Insert(history, hash, folded.st)
                                    /\ result' = Result("commit", "Ok", hash, NoValue)
                                    /\ reply' = Reply("commit", "success", "")
                       ELSE /\ history' = history
                            /\ result' = Result("commit", folded.err, NoRoot, NoValue)
                            /\ reply' = Reply("commit", "failed_transform", folded.err)

(***************************************************************************)
(* Serialization round trips: a value is serialized with further bytes     *)
(* after it, and the bytes are parsed back.                                *)
(***************************************************************************)
\* An array of 32 bytes, all of them b
Addr32(b) == [i \in 1..N32 |-> b]

\* A U512, as the value to serialize
U512(u) == [u512 |-> u]

SerKeys ==
    {Account(Addr32(12)), Hash(Addr32(42)), KeyLocal(Addr32(1), Addr32(2)),
     KeyURef(Addr32(7), OptNone), KeyURef(Addr32(7), OptSome(READ)),
     KeyURef(Addr32(0), OptSome(READ_ADD_WRITE))}
SerValues ==
    {Int32(0), Int32(-1), Int32(I32_MAX), Int32(-I32_MAX - 1),
     ByteArray(<<>>), ByteArray(<<0, 255>>), ListInt32(<<>>), ListInt32(<<1, -1>>),
     StringV(<<>>), StringV(<<97, 98>>), ListString(<<<<97>>, <<>>>>),
     NamedKey(<<97>>, KeyURef(Addr32(7), OptSome(READ)))}
SerU512s == {U512(u) : u \in {0, 1, 255, 256, 65536, 65537, 16777471, I32_MAX}}
SerPointers == {LeafPointer(Addr32(5)), NodePointer(Addr32(0))}
SerTries ==
    {Leaf(<<>>, <<>>), Leaf(<<0>>, <<1, 2>>), Extension(<<1, 0>>, NodePointer(Addr32(6))),
     Node([i \in 1..RADIX |-> OptNone]),
     Node([i \in 1..RADIX |-> IF i = 1 THEN OptSome(LeafPointer(Addr32(5)))
                              ELSE IF i = RADIX THEN OptSome(NodePointer(Addr32(6)))
                              ELSE OptNone])}
\* The bytes that follow the serialized value.
Remainders == {<<>>, <<0>>, <<1, 0, 0, 0, 255>>}

ToBytesOf(kind, x) ==
    CASE kind = "Key" -> KeyToBytes(x)
      [] kind = "Value" -> ValueToBytes(x)
      [] kind = "U512" -> U512ToBytes(x.u512)
      [] kind = "Pointer" -> PointerToBytes(x)
      [] kind = "Trie" -> TrieToBytes(x)
      [] kind = "AccessRights" -> <<x>>

FromBytesOf(kind, bytes) ==
    CASE kind = "Key" -> KeyFromBytes(bytes)
      [] kind = "Value" -> ValueFromBytes(bytes)
      [] kind = "U512" ->
            LET u == U512FromBytes(bytes)
            IN  IF u.ok THEN Parsed(U512(u.v), u.rem) ELSE u
      [] kind = "Pointer" -> PointerFromBytes(bytes)
      [] kind = "Trie" -> TrieFromBytes(bytes)
      [] kind = "AccessRights" -> AccessRightsFromBytes(bytes)

Drawn(kind, x, rem) ==
    [kind |-> kind, x |-> x, rem |-> rem, stage |-> "drawn", bytes |-> <<>>,
     parsed |-> FormattingError]

SerIdle == ser = [Drawn("none", U512(0), <<>>) EXCEPT !.stage = "idle"]

\* A value and the bytes to follow it are drawn.
SerDraw ==
    ser \in {Drawn("Key", x, rem) : x \in SerKeys, rem \in Remainders}
        \cup {Drawn("Value", x, rem) : x \in SerValues, rem \in Remainders}
        \cup {Drawn("U512", x, rem) : x \in SerU512s, rem \in Remainders}
        \cup {Drawn("Pointer", x, rem) : x \in SerPointers, rem \in Remainders}
        \cup {Drawn("Trie", x, rem) : x \in SerTries, rem \in Remainders}

\* to_bytes, and the bytes that follow
SerToBytes ==
    /\ ser.stage = "drawn"
    /\ ser' = [ser EXCEPT !.stage = "serialized", !.bytes = ToBytesOf(ser.kind, ser.x) \o ser.rem]

\* from_bytes on what was serialized
SerFromBytes ==
    /\ ser.stage = "serialized"
    /\ ser' = [ser EXCEPT !.stage = "parsed", !.parsed = FromBytesOf(ser.kind, ser.bytes)]

(***************************************************************************)
(* Decoding of bytes that arrive: from_bytes on encodings, on encodings    *)
(* cut short, on unknown tags and on other bytes, and to_bytes on what was *)
(* decoded.                                                                *)
(***************************************************************************)
Kinds == {"Key", "Value", "U512", "Pointer", "Trie"}

SerOf(kind) ==
    CASE kind = "Key" -> SerKeys
      [] kind = "Value" -> SerValues
      [] kind = "U512" -> SerU512s
      [] kind = "Pointer" -> SerPointers
      [] kind = "Trie" -> SerTries

Encodings(kind) == {ToBytesOf(kind, x) : x \in SerOf(kind)}

\* Every encoding without its last bytes.
CutShort(kind) == UNION {{Take(b, n) : n \in 0..(Len(b) - 1)} : b \in Encodings(kind)}

\* What follows a tag that names no variant.
AfterTag == {<<>>, <<0, 0, 0, 0>>, <<1, 0, 0, 0, 7>>}

\* Tags that name no variant, and for U512 a length above 64.
UnknownTags(kind) ==
    CASE kind = "Key" -> {<<LOCAL_ID + 1>>, <<255>>}
      [] kind = "Value" -> {<<LISTSTRING_ID + 1>>, <<255>>}
      [] kind = "U512" -> {<<U512_BYTES + 1>>, <<255>>}
      [] kind = "Pointer" -> {U32ToBytes(2), U32ToBytes(256)}
      [] kind = "Trie" -> {U32ToBytes(3), U32ToBytes(256)}

Zeros(n) == [i \in 1..n |-> 0]

\* Other bytes: U512 with zeros at the most significant end, URef keys
\* with a rights byte or an option tag of any value, an address of 31 bytes.
OtherBytes(kind) ==
    CASE kind = "U512" ->
            {<<1, 0>>, <<2, 1, 0>>, <<2, 0, 1>>, <<3, 0, 1, 0, 7>>, <<U512_BYTES, 1>> \o Zeros(U512_BYTES - 1),
             <<U512_BYTES + 1>> \o Zeros(U512_BYTES + 1)}
      [] kind = "Key" ->
            {<<UREF_ID>> \o BytesToBytes(Addr32(7)) \o <<tag, rights>> : tag \in {1, 2}, rights \in {0, 5, 8}}
                \cup {<<ACCOUNT_ID>> \o BytesToBytes(Zeros(N32 - 1))}
      [] OTHER -> {}

Received(kind, class, bytes) ==
    [kind |-> kind, class |-> class, bytes |-> bytes, stage |-> "received",
     parsed |-> FormattingError, again |-> <<>>, tests |-> <<>>]

\* Bytes arrive for a type.
DecReceive ==
    ser \in UNION {{Received(kind, "encoding", b \o rem) : b \in Encodings(kind), rem \in {<<>>, <<0>>}}
                        \cup {Received(kind, "cut_short", b) : b \in CutShort(kind)}
                        \cup {Received(kind, "unknown_tag", tag \o rest) : tag \in UnknownTags(kind), rest \in AfterTag}
                        \cup {Received(kind, "other", b) : b \in OtherBytes(kind)}
                    : kind \in Kinds}
            \cup {Received("AccessRights", "other", <<b>>) : b \in 0..9}

\* from_bytes on the bytes
DecFromBytes ==
    /\ ser.stage = "received"
    /\ ser' = [ser EXCEPT !.stage = "decoded", !.parsed = FromBytesOf(ser.kind, ser.bytes)]

\* to_bytes on the decoded value, and the bytes that followed it
DecToBytes ==
    /\ ser.stage = "decoded"
    /\ ser.parsed.ok
    /\ ser' = [ser EXCEPT !.stage = "encoded",
                          !.again = ToBytesOf(ser.kind, ser.parsed.v) \o ser.parsed.rem]

\* The seven named values of AccessRights, each as the set of its flags.
NamedRights == SUBSET {READ, WRITE, ADD} \ {{}}

\* is_readable, is_writeable and is_addable on decoded rights
DecTestRights ==
    /\ ser.stage = "decoded"
    /\ ser.kind = "AccessRights"
    /\ ser.parsed.ok
    /\ ser' = [ser EXCEPT !.stage = "tested",
                          !.tests = <<is_readable(ser.parsed.v), is_writeable(ser.parsed.v),
                                      is_addable(ser.parsed.v)>>]

(***************************************************************************)
(* Key::normalize, and equality and ordering of keys (common/src/key.rs).  *)
(***************************************************************************)
\* normalize as it would be if it kept the rights
keep_rights(key) == key

\* Key::normalize
normalize(key) ==
    CASE key.tag = UREF_ID -> KeyURef(key.addr, OptNone)
      [] OTHER -> key

\* Ord for integers, and for byte arrays, which compare lexicographically
CmpInt(x, y) == IF x < y THEN "Less" ELSE IF x > y THEN "Greater" ELSE "Equal"

\* Ordering::then
Then(first, second) == IF first # "Equal" THEN first ELSE second

RECURSIVE CmpBytes(_, _)
CmpBytes(x, y) ==
    IF x = <<>> \/ y = <<>> THEN CmpInt(Len(x), Len(y))
    ELSE Then(CmpInt(Head(x), Head(y)), CmpBytes(Tail(x), Tail(y)))

\* Ord for Option<AccessRights>: None before Some, rights by their bits
CmpOptionRights(x, y) ==
    CASE ~x.some /\ ~y.some -> "Equal"
      [] ~x.some -> "Less"
      [] ~y.some -> "Greater"
      [] OTHER -> CmpInt(x.v, y.v)

\* The derived Ord for Key: by variant in the order of declaration, then by
\* the fields in their order
KeyCmp(a, b) ==
    IF a.tag # b.tag THEN CmpInt(a.tag, b.tag)
    ELSE CASE a.tag = UREF_ID ->
                Then(CmpBytes(a.addr, b.addr), CmpOptionRights(a.access_rights, b.access_rights))
           [] a.tag = LOCAL_ID ->
                Then(CmpBytes(a.seed, b.seed), CmpBytes(a.key_hash, b.key_hash))
           [] OTHER -> CmpBytes(a.addr, b.addr)

\* The keys that are normalized and compared.
NormKeys ==
    {Account(Addr32(12)), Hash(Addr32(12)), KeyLocal(Addr32(1), Addr32(2)),
     KeyURef(Addr32(7), OptNone), KeyURef(Addr32(7), OptSome(READ)),
     KeyURef(Addr32(7), OptSome(READ_ADD_WRITE)), KeyURef(Addr32(8), OptSome(READ)),
     KeyURef(Addr32(8), OptSome(WRITE))}

NormOf(stage, a, b, na, nb, nna) ==
    [stage |-> stage, a |-> a, b |-> b, na |-> na, nb |-> nb, nna |-> nna,
     eq |-> FALSE, cmp |-> "none"]

NormIdle == norm = NormOf("idle", Account(Addr32(0)), Account(Addr32(0)), Account(Addr32(0)), Account(Addr32(0)), Account(Addr32(0)))

\* Two keys are drawn.
NormDraw == norm \in {NormOf("drawn", a, b, a, b, a) : a, b \in NormKeys}

\* normalize on both keys
NormNormalize ==
    /\ norm.stage = "drawn"
    /\ norm' = [norm EXCEPT !.stage = "normalized", !.na = normalize(norm.a),
                            !.nb = normalize(norm.b)]

\* normalize on what normalize returned
NormAgain ==
    /\ norm.stage = "normalized"
    /\ norm' = [norm EXCEPT !.stage = "again", !.nna = normalize(norm.na)]

\* == and cmp on the normalized keys
NormCompare ==
    /\ norm.stage \in {"normalized", "again"}
    /\ norm' = [norm EXCEPT !.stage = "compared", !.eq = (norm.na = norm.nb),
                            !.cmp = KeyCmp(norm.na, norm.nb)]

(***************************************************************************)
(* Writes to the trie (section 4.4 of the specification): the update of a  *)
(* radix trie with extensions. A trie is held as its root with the nodes   *)
(* below it; the hash of a node is that of its serialization, in which     *)
(* every node below is a pointer with its hash.                            *)
(***************************************************************************)
Nil == [kind |-> "nil"]
LeafT(key, value) == [kind |-> "leaf", key |-> key, value |-> value]
NodeT(children) == [kind |-> "node", children |-> children]
ExtT(affix, child) == [kind |-> "ext", affix |-> affix, child |-> child]

\* The empty trie: a node with an empty pointer block
EmptyTrie == NodeT([b \in 0..(RADIX - 1) |-> Nil])

\* How many bytes two byte strings have in common at their start
RECURSIVE CommonPrefix(_, _)
CommonPrefix(x, y) ==
    IF x = <<>> \/ y = <<>> \/ Head(x) # Head(y) THEN 0
    ELSE 1 + CommonPrefix(Tail(x), Tail(y))

\* An extension with the affix in front of the node, if there is an affix
WithAffix(affix, trie) == IF affix = <<>> THEN trie ELSE ExtT(affix, trie)

\* A branching node with two children
Branch(b1, t1, b2, t2) ==
    NodeT([b \in 0..(RADIX - 1) |-> IF b = b1 THEN t1 ELSE IF b = b2 THEN t2 ELSE Nil])

\* A leaf is replaced by a node when the key of a second leaf shares a
\* prefix with its key: the common prefix, then the branching node
SplitLeaf(leaf, key, d, value) ==
    LET c == CommonPrefix(Drop(leaf.key, d), Drop(key, d))
    IN  WithAffix(SubSeq(key, d + 1, d + c),
                  Branch(leaf.key[d + c + 1], leaf, key[d + c + 1], LeafT(key, value)))

\* The split of an extension as it would be if the common prefix were
\* made an extension even when it is empty
SplitExtensionAlwaysPrefixed(ext, key, d, value) ==
    LET c == CommonPrefix(ext.affix, Drop(key, d))
    IN  ExtT(Take(ext.affix, c),
             Branch(ext.affix[c + 1], WithAffix(Drop(ext.affix, c + 1), ext.child),
                    key[d + c + 1], LeafT(key, value)))

\* An extension is split when its affix diverges from the key: the
\* common prefix, a branching node, and below it what is left of the
\* extension and the new leaf
SplitExtension(ext, key, d, value) ==
    LET c == CommonPrefix(ext.affix, Drop(key, d))
    IN  WithAffix(Take(ext.affix, c),
                  Branch(ext.affix[c + 1], WithAffix(Drop(ext.affix, c + 1), ext.child),
                         key[d + c + 1], LeafT(key, value)))

\* write (insert or update) of key and value below a node reached after d
\* bytes of the key
RECURSIVE WriteBelow(_, _, _, _)
WriteBelow(trie, key, d, value) ==
    CASE trie.kind = "nil" -> LeafT(key, value)
      [] trie.kind = "leaf" ->
            IF trie.key = key THEN LeafT(key, value) ELSE SplitLeaf(trie, key, d, value)
      [] trie.kind = "ext" ->
            IF CommonPrefix(trie.affix, Drop(key, d)) = Len(trie.affix)
            THEN ExtT(trie.affix, WriteBelow(trie.child, key, d + Len(trie.affix), value))
            ELSE SplitExtension(trie, key, d, value)
      [] trie.kind = "node" ->
            NodeT([trie.children EXCEPT ![key[d + 1]] = WriteBelow(@, key, d + 1, value)])

\* The node as it is stored, and its hash
RECURSIVE Stored(_)
RECURSIVE HashOfTrie(_)
PointerTo(trie) ==
    IF trie.kind = "nil" THEN OptNone
    ELSE IF trie.kind = "leaf" THEN OptSome(LeafPointer(HashOfTrie(trie)))
    ELSE OptSome(NodePointer(HashOfTrie(trie)))
Stored(trie) ==
    CASE trie.kind = "leaf" -> Leaf(trie.key, trie.value)
      [] trie.kind = "ext" -> Extension(trie.affix, PointerTo(trie.child).v)
      [] trie.kind = "node" -> Node([i \in 1..RADIX |-> PointerTo(trie.children[i - 1])])
HashOfTrie(trie) == Blake2b(TrieToBytes(Stored(trie)))

\* The nodes reachable from a node, each with its hash
RECURSIVE Reachable(_)
Reachable(trie) ==
    CASE trie.kind = "nil" -> {}
      [] trie.kind = "leaf" -> {<<HashOfTrie(trie), Stored(trie)>>}
      [] trie.kind = "ext" -> {<<HashOfTrie(trie), Stored(trie)>>} \cup Reachable(trie.child)
      [] trie.kind = "node" ->
            {<<HashOfTrie(trie), Stored(trie)>>}
                \cup UNION {Reachable(trie.children[b]) : b \in DOMAIN trie.children}

\* The entries that are written: keys of one length
WriteEntries ==
    {Leaf(<<0, 0, 0>>, <<1>>), Leaf(<<1, 0, 0>>, <<2>>), Leaf(<<1, 0, 1>>, <<3>>),
     Leaf(<<1, 1, 0>>, <<4>>)}

Written(order, trie) == [order |-> order, trie |-> trie, root_hash |-> HashOfTrie(trie)]

WriteIdle == left = Written(<<>>, EmptyTrie) /\ right = Written(<<>>, EmptyTrie)

Range(seq) == {seq[i] : i \in DOMAIN seq}

\* write of an entry that the trie does not hold
WriteTo(side, entry) ==
    Written(Append(side.order, entry), WriteBelow(side.trie, entry.key, 0, entry.value))

WriteLeft(entry) ==
    /\ entry \notin Range(left.order)
    /\ left' = WriteTo(left, entry)
    /\ UNCHANGED right

WriteRight(entry) ==
    /\ entry \notin Range(right.order)
    /\ right' = WriteTo(right, entry)
    /\ UNCHANGED left

(***************************************************************************)
(* Transfers from the main purse of an account to a public key (scenarios  *)
(* S2 to S4 of the specification, comm/tests/                              *)
(* test_transfer_purse_to_account.rs). The balance of a purse is a UInt512 *)
(* under the URef of the purse; the mint writes the balance of the source  *)
(* and adds to that of the target.                                         *)
(***************************************************************************)
GENESIS_ADDR == 12
ACCOUNT_1_ADDR == 42
XferAccounts == {GENESIS_ADDR, ACCOUNT_1_ADDR, 7}

\* The tokens genesis seeds its account with.
GenesisTokens == U512_MAX - 1

\* The purse made for a new account: one that no account has yet
PurseOf(addr) == 100 + addr

Bank(main_purse, purses) == [main_purse |-> main_purse, purses |-> purses]

\* run_genesis: the genesis account with all tokens in its main purse
GenesisBank ==
    Bank(Insert(EmptyMap, GENESIS_ADDR, PurseOf(GENESIS_ADDR)),
         Insert(EmptyMap, PurseOf(GENESIS_ADDR), UInt512(GenesisTokens)))

Transferred(ret, transforms, created) ==
    [result |-> ret, transforms |-> transforms, created |-> created]

\* The transfer of the mint as it would be if the source were not debited
MintTransferWithoutDebit(purses, source, target, amount) ==
    IF amount > purses[source].n THEN [ok |-> FALSE, transforms |-> EmptyMap]
    ELSE [ok |-> TRUE, transforms |-> Insert(EmptyMap, target, AddUInt512(amount))]

\* The transfer of the mint as it would be without the check of the balance
MintTransferUnchecked(purses, source, target, amount) ==
    [ok |-> TRUE,
     transforms |-> Insert(Insert(EmptyMap, source, Write(UInt512(purses[source].n - amount))),
                           target, AddUInt512(amount))]

\* The transfer of the mint: an error if the source holds less than the
\* amount; else the balance of the source is written and the amount added
\* to the balance of the target
MintTransfer(purses, source, target, amount) ==
    IF amount > purses[source].n THEN [ok |-> FALSE, transforms |-> EmptyMap]
    ELSE [ok |-> TRUE,
          transforms |-> Insert(Insert(EmptyMap, source, Write(UInt512(purses[source].n - amount))),
                                target, AddUInt512(amount))]

\* To an account that exists: a transfer to its main purse
TransferToExistingAccount(minted) ==
    IF minted.ok THEN Transferred("TransferredToExistingAccount", minted.transforms, FALSE)
    ELSE Transferred("TransferError", EmptyMap, FALSE)

\* To a public key without account: a purse is created empty, the amount
\* transferred to it, and the account written with it as its main purse
TransferToNewAccount(minted, purse) ==
    IF minted.ok
    THEN Transferred("TransferredToNewAccount",
                     [minted.transforms EXCEPT ![purse] = Compose(Write(UInt512(0)), @)], TRUE)
    ELSE Transferred("TransferError", EmptyMap, FALSE)

\* transfer_from_purse_to_account(source, target, amount)
transfer_from_purse_to_account(b, source, target, amount) ==
    IF target \in DOMAIN b.main_purse
    THEN TransferToExistingAccount(MintTransfer(b.purses, source, b.main_purse[target], amount))
    ELSE TransferToNewAccount(MintTransfer(b.purses, source, PurseOf(target), amount),
                              PurseOf(target))

\* commit of the transforms of a deploy to the balances
CommitToPurses(purses, transforms) ==
    [p \in DOMAIN purses \cup DOMAIN transforms |->
        IF p \notin DOMAIN transforms THEN purses[p]
        ELSE Apply(transforms[p], IF p \in DOMAIN purses THEN purses[p] ELSE Int32(0)).v]

NoXfer ==
    [op |-> "none", from |-> 0, target |-> 0, amount |-> 0, before |-> GenesisBank,
     status |-> "None", transfer_result |-> "", final_balance |-> 0, transforms |-> EmptyMap]

XferIdle == bank = GenesisBank /\ xfer = NoXfer

\* The session code of the deploy has returned: its result and its balance
\* are under the named keys of the account, the effect is committed
TransferDone(from, target, amount, before, after, done) ==
    [op |-> "transfer", from |-> from, target |-> target, amount |-> amount,
     before |-> before, status |-> "Success", transfer_result |-> done.result,
     final_balance |-> after.purses[before.main_purse[from]].n, transforms |-> done.transforms]

AfterTransfer(b, target, done) ==
    Bank(IF done.created THEN Insert(b.main_purse, target, PurseOf(target)) ELSE b.main_purse,
         CommitToPurses(b.purses, done.transforms))

\* A deploy of transfer_purse_to_account.wasm by an account, with a public
\* key and an amount as its arguments, executed and committed
TransferDeploy(from, target, amount) ==
    /\ from \in DOMAIN bank.main_purse
    /\ target # from
    /\ bank' = AfterTransfer(bank, target,
                    transfer_from_purse_to_account(bank, bank.main_purse[from], target, amount))
    /\ xfer' = TransferDone(from, target, amount, bank, bank',
                    transfer_from_purse_to_account(bank, bank.main_purse[from], target, amount))

\* The sum of the balances of all purses
RECURSIVE SumOfPurses(_)
SumOfPurses(purses) ==
    IF DOMAIN purses = {} THEN 0
    ELSE LET p == CHOOSE q \in DOMAIN purses : TRUE
         IN  purses[p].n + SumOfPurses(Remove(purses, p))

(***************************************************************************)
(* The counter contract (contracts/examples/counter/define/src/lib.rs),    *)
(* its deploys executed on a tracking copy and committed.                  *)
(***************************************************************************)
\* At most this many invocations of counter_ext are deployed.
MaxInvocations == 4

CounterMethods == {"inc", "get", "reset"}

\* new_uref in the defining deploy, and the hash store_function stores under
counter_local_key == KeyURef(Addr32(1), OptNone)
counter_hash == Hash(Addr32(9))

\* What a deploy leaves: its status, the value handed to ret, its copy
Deployed(status, returned, copy) == [status |-> status, returned |-> returned, tc |-> copy]

\* call() of the defining contract
CounterCall(st) ==
    Deployed("Success", NoValue,
             TcWriteOn(TcWriteOn(NewTc(NoRoot), counter_local_key, Int32(0)).tc,
                       counter_hash, Contract(<<counter_local_key>>)).tc)

\* inc as it would be if it wrote one instead of adding one.
CounterIncWritesOne(copy, st, uref) == TcWriteOn(copy, uref, Int32(1))

\* inc
CounterInc(copy, st, uref) == TcAddOn(copy, st, uref, AddInt32(1))

\* get
CounterGet(copy, st, uref) ==
    LET got == TcReadOn(copy, st, uref)
    IN  [tc |-> got.tc,
         ret |-> IF got.ret.res = "Ok" /\ got.ret.val.tag = INT32_ID THEN got.ret.val.n ELSE 0]

\* counter_ext, called with the stored contract's known URefs
counter_ext(st, known_urefs, method_name) ==
    CASE method_name = "inc" ->
            Deployed("Success", NoValue, CounterInc(NewTc(NoRoot), st, known_urefs[1]).tc)
      [] method_name = "get" ->
            Deployed("Success", Int32(CounterGet(NewTc(NoRoot), st, known_urefs[1]).ret),
                     CounterGet(NewTc(NoRoot), st, known_urefs[1]).tc)
      [] OTHER -> Deployed("Failure", NoValue, NewTc(NoRoot))

\* commit of what a deploy did; a failed deploy has no effect to commit
CounterCommit(st, deployed) ==
    IF deployed.status = "Success" THEN ApplyEffects(st, deployed.tc.fns) ELSE st

NoCounter == [defined |-> FALSE, log |-> <<>>, before |-> EmptyMap, status |-> "None", returned |-> NoValue]

CtrIdle == world = EmptyMap /\ ctr = NoCounter

\* The defining deploy, executed and committed
CounterDefine ==
    /\ ~ctr.defined
    /\ world' = CounterCommit(world, CounterCall(world))
    /\ ctr' = [defined |-> TRUE, log |-> <<>>, before |-> world,
               status |-> CounterCall(world).status, returned |-> NoValue]

\* A deploy that calls counter_ext of the stored contract, executed and
\* committed
CounterInvoke(method_name) ==
    /\ ctr.defined
    /\ Len(ctr.log) < MaxInvocations
    /\ world' = CounterCommit(world, counter_ext(world, world[counter_hash].named_keys, method_name))
    /\ ctr' = [defined |-> TRUE, log |-> Append(ctr.log, method_name), before |-> world,
               status |-> counter_ext(world, world[counter_hash].named_keys, method_name).status,
               returned |-> counter_ext(world, world[counter_hash].named_keys, method_name).returned]

\* How many times a method occurs in the log
RECURSIVE TimesIn(_, _)
TimesIn(log, method_name) ==
    IF log = <<>> THEN 0
    ELSE (IF Head(log) = method_name THEN 1 ELSE 0) + TimesIn(Tail(log), method_name)

(***************************************************************************)
(* ExecutionEngineService::validate (comm/src/engine_server/mod.rs).       *)
(* Module bytes are modelled by what wabt makes of them (read_binary, then *)
(* validate) and by the host functions the module imports.                 *)
(***************************************************************************)
Code(format, imports) == [format |-> format, imports |-> imports]

\* Host functions the runtime dispatches, among them those the codes import
AllowedImports == {"read_value", "write", "new_uref", "gas"}

\* The codes validate requests carry: the empty module, modules that import
\* host functions, bytes that end early, a module that does not type check.
ValidateCodes ==
    {Code("module", {}), Code("module", {"new_uref", "gas"}), Code("module", {"write", "forbidden"}),
     Code("truncated", {}), Code("ill_typed", {"write"})}

Passed == [ok |-> TRUE, cause |-> ""]
Cause(message) == [ok |-> FALSE, cause |-> message]

\* get_module: wabt::Module::read_binary(bytes, default options) and then
\* Module::validate; neither is given a set of host functions
get_module(bytes) ==
    CASE bytes.format = "truncated" -> Cause("read_binary: unable to read module")
      [] bytes.format = "ill_typed" -> Cause("validate: type mismatch")
      [] OTHER -> Passed

\* Result::and
ResultAnd(res, other) == IF res.ok THEN other ELSE res

NoRequest == [payment_code |-> Code("none", {}), session_code |-> Code("none", {})]

ValIdle == validate_request = NoRequest

\* ExecutionEngineService::validate
SrvValidate(payment_code, session_code) ==
    /\ validate_request' = [payment_code |-> payment_code, session_code |-> session_code]
    /\ reply' = IF ResultAnd(get_module(payment_code), get_module(session_code)).ok
                THEN Reply("validate", "success", "")
                ELSE Reply("validate", "failure",
                           ResultAnd(get_module(payment_code), get_module(session_code)).cause)
    /\ UNCHANGED <<active_state, history, result>>

\* A module as section 6 and scenario S6 of the specification accept it: well
\* formed, and importing only host functions of the allowed set
Acceptable(code) == code.format = "module" /\ code.imports \subseteq AllowedImports

(***************************************************************************)
(* EngineState::query_state (engine/src/engine.rs), on a snapshot that has *)
(* been checked out.                                                       *)
(***************************************************************************)
\* The longest path of a query.
MaxPath == 3

\* Value::Acct, of which the named keys (urefs_lookup) are kept
Acct(named_keys) == [tag |-> ACCT_ID, n |-> 0, s |-> <<>>, named_keys |-> named_keys]

\* The names paths are made of: "a", "b", "c"
QueryNames == {<<97>>, <<98>>, <<99>>}

\* The snapshot queried: an account that names a contract and a key without
\* a value, a contract that names an integer and the account.
QuerySnapshot ==
    Insert(Insert(Insert(EmptyMap,
        Account(Addr32(12)), Acct(Insert(Insert(EmptyMap, <<97>>, Hash(Addr32(42))),
                                         <<99>>, KeyURef(Addr32(3), OptNone)))),
        Hash(Addr32(42)), Contract(Insert(Insert(EmptyMap, <<98>>, KeyURef(Addr32(7), OptNone)),
                                          <<97>>, Account(Addr32(12))))),
        KeyURef(Addr32(7), OptNone), Int32(5))

QueryKeys == DOMAIN QuerySnapshot \cup {Hash(Addr32(1))}
QueryPaths == UNION {[1..n -> QueryNames] : n \in 0..MaxPath}

QuerySuccess(v) == [kind |-> "Success", value |-> v, path |-> <<>>]
ValueNotFound(full_path) == [kind |-> "ValueNotFound", value |-> NoValue, path |-> full_path]
QueryErr(error) == [kind |-> error, value |-> NoValue, path |-> <<>>]

\* full_path.push_str(p) for every p of the path
RECURSIVE PushStrs(_)
PushStrs(path) == IF path = <<>> THEN <<>> ELSE Head(path) \o PushStrs(Tail(path))

\* What the closure of try_fold does with one name
FollowName(st, curr_value, name) ==
    IF curr_value.tag \notin {ACCT_ID, CONTRACT_ID} THEN ValueNotFound(<<>>)
    ELSE IF name \notin DOMAIN curr_value.named_keys THEN ValueNotFound(<<>>)
    ELSE IF TcReadOn(NewTc(NoRoot), st, curr_value.named_keys[name]).ret.res # "Ok"
    THEN QueryErr(TcReadOn(NewTc(NoRoot), st, curr_value.named_keys[name]).ret.res)
    ELSE QuerySuccess(TcReadOn(NewTc(NoRoot), st, curr_value.named_keys[name]).ret.val)

\* path.iter().try_fold(base_value, ...)
RECURSIVE TryFoldPath(_, _, _)
TryFoldPath(st, curr, path) ==
    IF path = <<>> \/ curr.kind # "Success" THEN curr
    ELSE TryFoldPath(st, FollowName(st, curr.value, Head(path)), Tail(path))

\* The last match of query_state: any error becomes not_found_error
NotFoundIfErr(maybe_value, not_found_error) ==
    IF maybe_value.kind = "Success" THEN maybe_value ELSE not_found_error

\* EngineState::query_state
query_state(st, base_key, path) ==
    IF TcReadOn(NewTc(NoRoot), st, base_key).ret.res # "Ok"
    THEN QueryErr(TcReadOn(NewTc(NoRoot), st, base_key).ret.res)
    ELSE NotFoundIfErr(TryFoldPath(st, QuerySuccess(TcReadOn(NewTc(NoRoot), st, base_key).ret.val), path),
                       ValueNotFound(PushStrs(path)))

NoQuery == [base_key |-> NoKey, path |-> <<>>, returned |-> QueryErr("None")]

QryIdle == queried = NoQuery

\* A query sent to the engine
QueryState(base_key, path) ==
    queried' = [base_key |-> base_key, path |-> path,
                returned |-> query_state(QuerySnapshot, base_key, path)]

\* The number of names of the path that resolve, one after the other, from
\* value curr_value of snapshot st
RECURSIVE Resolved(_, _, _)
Resolved(st, curr_value, path) ==
    IF path = <<>> \/ FollowName(st, curr_value, Head(path)).kind # "Success" THEN 0
    ELSE 1 + Resolved(st, FollowName(st, curr_value, Head(path)).value, Tail(path))

\* The value the path leads to, when all of its names resolve
RECURSIVE Reached(_, _, _)
Reached(st, curr_value, path) ==
    IF path = <<>> THEN curr_value
    ELSE Reached(st, FollowName(st, curr_value, Head(path)).value, Tail(path))

(***************************************************************************)
(* Genesis (engine/src/engine_state/genesis.rs).                           *)
(***************************************************************************)
\* Value::Key. The tag is one the other values do not have.
KeyValue(key) == [tag |-> 11, n |-> 0, s |-> <<>>, key |-> key]

\* init::create_genesis_account: the account, with its purse and named keys
GenesisAccount(purse_id, known_urefs) ==
    [tag |-> ACCT_ID, n |-> 0, s |-> <<>>, named_keys |-> known_urefs, purse_id |-> purse_id]

\* execution::create_rng(account_addr, nonce): a ChaCha stream, which its
\* seed determines. The 32 bytes of a draw are modelled by the seed and the
\* position of the draw in the stream.
create_rng(account_addr, nonce) == [seed |-> <<account_addr, nonce>>, drawn |-> 0]
FillBytes(rng) == rng.seed \o <<rng.drawn + 1>>
Advanced(rng, draws) == [rng EXCEPT !.drawn = @ + draws]

\* create_uref, on a PRNG from which this many draws were made before
create_uref(rng, draws) == KeyURef(FillBytes(Advanced(rng, draws)), OptSome(READ_ADD_WRITE))

\* "mint", "pos_purse", URef::as_string and the name of a validator's entry
MintName == <<109, 105, 110, 116>>
POS_PURSE == <<112, 111, 115>>
URefAsString(uref) == <<117>> \o uref.addr
ValidatorName(validator) == <<118>> \o validator

\* Key::local(seed, key_bytes)
LocalKeyOf(seed, local_key) == KeyLocal(seed, Blake2b(BytesToBytes(local_key)))

\* The maps create_mint_effects builds from the URefs it has drawn
MintEffects(public_uref, mint_contract_uref, purse_id_uref, balance_uref, genesis_account_addr, initial_tokens) ==
    Insert(Insert(Insert(Insert(Insert(EmptyMap,
        public_uref, KeyValue(mint_contract_uref)),
        Account(Addr32(genesis_account_addr)),
            GenesisAccount(purse_id_uref,
                Insert(Insert(EmptyMap, MintName, public_uref),
                       URefAsString(mint_contract_uref), mint_contract_uref))),
        LocalKeyOf(mint_contract_uref.addr, purse_id_uref.addr), KeyValue(balance_uref)),
        balance_uref, UInt512(initial_tokens)),
        mint_contract_uref,
            Contract(Insert(Insert(EmptyMap, URefAsString(balance_uref), balance_uref),
                            URefAsString(mint_contract_uref), mint_contract_uref)))

\* create_mint_effects, which makes four draws
create_mint_effects(rng, genesis_account_addr, initial_tokens) ==
    MintEffects(create_uref(rng, 0), create_uref(rng, 1), create_uref(rng, 2), create_uref(rng, 3),
                genesis_account_addr, initial_tokens)

\* known_urefs of the PoS contract: an entry per validator, and the purse
PosKnownURefs(genesis_validators, pos_purse) ==
    [name \in {ValidatorName(genesis_validators[i]) : i \in DOMAIN genesis_validators}
                \cup {POS_PURSE} |->
        IF name = POS_PURSE THEN pos_purse ELSE Hash(Addr32(0))]

\* create_pos_effects
create_pos_effects(rng, genesis_validators) ==
    Insert(Insert(EmptyMap,
        create_uref(rng, 0), KeyValue(create_uref(rng, 1))),
        create_uref(rng, 1), Contract(PosKnownURefs(genesis_validators, create_uref(rng, 2))))

ExecutionEffect(ops, transforms) == [ops |-> ops, transforms |-> transforms]

\* The loop of create_genesis_effects as it would be if the keys were
\* inserted as they are.
RECURSIVE InsertAsIs(_, _, _)
InsertAsIs(execution_effect, order, effects) ==
    IF order = <<>> THEN execution_effect
    ELSE InsertAsIs(ExecutionEffect(Insert(execution_effect.ops, Head(order), "Write"),
                                    Insert(execution_effect.transforms, Head(order),
                                           Write(effects[Head(order)]))),
                    Tail(order), effects)

\* The loop of create_genesis_effects over the chained maps, iterated in
\* this order
RECURSIVE InsertNormalized(_, _, _)
InsertNormalized(execution_effect, order, effects) ==
    IF order = <<>> THEN execution_effect
    ELSE InsertNormalized(ExecutionEffect(Insert(execution_effect.ops, normalize(Head(order)), "Write"),
                                          Insert(execution_effect.transforms, normalize(Head(order)),
                                                 Write(effects[Head(order)]))),
                          Tail(order), effects)

\* The permutations of the places of the two maps
MintPermutations == IterationOrders(1..5)
PosPermutations == IterationOrders(1..2)
\* The orders a commit is tried with: the rotations of the 7 places
CommitPermutations == {[i \in 1..7 |-> ((i + r) % 7) + 1] : r \in 0..6}

\* The keys of a set in a sequence
RECURSIVE SeqOf(_)
SeqOf(S) == IF S = {} THEN <<>> ELSE <<CHOOSE k \in S : TRUE>> \o SeqOf(S \ {CHOOSE k \in S : TRUE})

\* The order in which a map is iterated: a permutation of its keys
IterationOf(map, perm) == [i \in DOMAIN perm |-> SeqOf(DOMAIN map)[perm[i]]]

\* create_genesis_effects as it would be if the PRNG were seeded with the
\* initial tokens as well.
create_genesis_effects_seeded_with_tokens(genesis_account_addr, initial_tokens, genesis_validators, mint_perm, pos_perm) ==
    InsertNormalized(
        InsertNormalized(ExecutionEffect(EmptyMap, EmptyMap),
            IterationOf(create_mint_effects(create_rng(genesis_account_addr, initial_tokens),
                                            genesis_account_addr, initial_tokens), mint_perm),
            create_mint_effects(create_rng(genesis_account_addr, initial_tokens),
                                genesis_account_addr, initial_tokens)),
        IterationOf(create_pos_effects(Advanced(create_rng(genesis_account_addr, initial_tokens), 4),
                                       genesis_validators), pos_perm),
        create_pos_effects(Advanced(create_rng(genesis_account_addr, initial_tokens), 4),
                           genesis_validators))

\* create_genesis_effects, the two maps iterated in these orders
create_genesis_effects(genesis_account_addr, initial_tokens, genesis_validators, mint_perm, pos_perm) ==
    InsertNormalized(
        InsertNormalized(ExecutionEffect(EmptyMap, EmptyMap),
            IterationOf(create_mint_effects(create_rng(genesis_account_addr, 0),
                                            genesis_account_addr, initial_tokens), mint_perm),
            create_mint_effects(create_rng(genesis_account_addr, 0),
                                genesis_account_addr, initial_tokens)),
        IterationOf(create_pos_effects(Advanced(create_rng(genesis_account_addr, 0), 4),
                                       genesis_validators), pos_perm),
        create_pos_effects(Advanced(create_rng(genesis_account_addr, 0), 4),
                           genesis_validators))

\* The arguments genesis is made with: the address of the genesis account,
\* the initial tokens, the validators (a public key and a stake each).
GenesisAddrs == {GENESIS_ADDR, ACCOUNT_1_ADDR}
GenesisTokenAmounts == {0, 1, U512_MAX}
GenesisValidatorLists == {<<>>, <<<<1, 3>>>>, <<<<2, 1>>>>, <<<<1, 3>>, <<2, 1>>>>}

NoEffect == ExecutionEffect(EmptyMap, EmptyMap)
NoGenesis ==
    [genesis_account_addr |-> 0, initial_tokens |-> 0, genesis_validators |-> <<>>,
     effect |-> NoEffect, again |-> NoEffect, urefs |-> <<>>, state |-> EmptyMap]

GenIdle == genesis = NoGenesis

\* create_genesis_effects called
GenCreate(genesis_account_addr, initial_tokens, genesis_validators, mint_perm, pos_perm) ==
    /\ genesis = NoGenesis
    /\ genesis' = [NoGenesis EXCEPT
            !.genesis_account_addr = genesis_account_addr,
            !.initial_tokens = initial_tokens,
            !.genesis_validators = genesis_validators,
            !.effect = create_genesis_effects(genesis_account_addr, initial_tokens,
                                              genesis_validators, mint_perm, pos_perm)]

\* create_genesis_effects called once more with the same arguments
GenCreateAgain(mint_perm, pos_perm) ==
    /\ genesis # NoGenesis
    /\ genesis' = [genesis EXCEPT
            !.again = create_genesis_effects(genesis.genesis_account_addr, genesis.initial_tokens,
                                             genesis.genesis_validators, mint_perm, pos_perm)]

\* A caller makes the PRNG anew and draws from it, as the tests do
GenDraw ==
    /\ genesis # NoGenesis
    /\ genesis' = [genesis EXCEPT
            !.urefs = [i \in 1..4 |->
                            create_uref(create_rng(genesis.genesis_account_addr, 0), i - 1)]]

\* The effect is committed to the empty state, its transforms iterated in
\* this order
GenCommit(perm) ==
    /\ genesis # NoGenesis
    /\ genesis' = [genesis EXCEPT
            !.state = TryFold(EmptyMap, IterationOf(genesis.effect.transforms, perm),
                              genesis.effect.transforms).st]

\* The values of a state that hold named keys
Holders(st) == {k \in DOMAIN st : st[k].tag \in {ACCT_ID, CONTRACT_ID}}

(***************************************************************************)
(* InMemGS::commit, transform by transform: effects of every kind of       *)
(* transform are committed to keys with and without a value.               *)
(***************************************************************************)
PerKeyTransforms ==
    {Identity, AddInt32(1), AddUInt512(1), AddKeys(Insert(EmptyMap, <<97>>, Hash(<<42>>))),
     Write(Int32(I32_MAX - 1)), Write(UInt512(U512_MAX - 1)), Write(Contract(EmptyMap))}
\* The effects committed: a transform for one key
PerKeyEffects == {[k \in {key} |-> t] : key \in Keys, t \in PerKeyTransforms}

\* What the commit of one transform to key k of state st is to give
Committed(st, k, t) ==
    IF k \notin DOMAIN st
    THEN IF t.t = "Write" THEN [res |-> "Ok", v |-> t.v] ELSE [res |-> "KeyNotFound", v |-> NoValue]
    ELSE IF Apply(t, st[k]).ok THEN [res |-> "Ok", v |-> Apply(t, st[k]).v]
         ELSE [res |-> "TypeMismatch", v |-> NoValue]

(***************************************************************************)
(* InMemGS called by concurrent threads (storage/src/gs/inmem.rs). Both    *)
(* maps sit behind a mutex; a step of a call is what it does between       *)
(* taking a mutex and giving it back, and a guard bound by let is held     *)
(* until the call returns.                                                 *)
(***************************************************************************)
\* The calls the threads make on the store, all threads together.
MaxCalls == 3

\* The threads; a mutex that no thread holds is held by 0
Threads == {1, 2}

\* A thread between calls, that has made this many calls
Between(made) ==
    [pc |-> "idle", made |-> made, roots |-> <<>>, i |-> 0, effects |-> EmptyMap, todo |-> <<>>,
     pending |-> NoValue, local |-> EmptyMap, hash |-> NoRoot]

ConcIdle ==
    /\ lock = [active_state |-> 0, history |-> 0]
    /\ thread = [t \in Threads |-> Between(0)]

\* The mutex a thread is about to take
Wants(t) ==
    CASE thread[t].pc \in {"get", "checkout_store", "multiple_store", "commit_remove",
                           "commit_insert", "commit_clone", "commit_hash", "get_root_hash"}
            -> "active_state"
      [] thread[t].pc \in {"checkout_contains", "checkout_get", "multiple_find", "multiple_get",
                           "commit_store"}
            -> "history"
      [] OTHER -> "none"

Unlocked(t) == Wants(t) # "none" /\ lock[Wants(t)] = 0

\* The call of thread t returns
Returned(t, ret) == [thread EXCEPT ![t] = Between(thread[t].made)]

\* The calls made so far
RECURSIVE CallsMade(_)
CallsMade(S) ==
    IF S = {} THEN 0
    ELSE thread[CHOOSE t \in S : TRUE].made + CallsMade(S \ {CHOOSE t \in S : TRUE})

\* A thread calls get, get_root_hash, checkout, checkout_multiple or commit
ConcCall(t, pc, roots, effects, order) ==
    /\ thread[t].pc = "idle"
    /\ CallsMade(Threads) < MaxCalls
    /\ thread' = [thread EXCEPT ![t] = [Between(thread[t].made + 1) EXCEPT
                        !.pc = IF pc = "commit_remove" /\ order = <<>> THEN "commit_clone" ELSE pc,
                        !.roots = roots, !.i = 1, !.effects = effects, !.todo = order]]
    /\ UNCHANGED <<lock, active_state, history, result>>

\* get: self.active_state.lock().get(k)
ConcGet(t) ==
    /\ thread[t].pc = "get" /\ Unlocked(t)
    /\ thread' = Returned(t, DbGet(active_state, Account(<<12>>)).res)
    /\ UNCHANGED <<lock, active_state, history, result>>

\* get_root_hash: the mutex is held while the map is iterated
ConcGetRootHash(t) ==
    /\ thread[t].pc = "get_root_hash" /\ Unlocked(t)
    /\ \E order \in IterationOrders(DOMAIN active_state) :
            thread' = Returned(t, RootHash(active_state, order))
    /\ UNCHANGED <<lock, active_state, history, result>>

\* checkout: !self.history.lock().contains_key(&prestate_hash)
ConcCheckoutContains(t) ==
    /\ thread[t].pc = "checkout_contains" /\ Unlocked(t)
    /\ thread' = IF thread[t].roots[1] \in DOMAIN history
                 THEN [thread EXCEPT ![t].pc = "checkout_store"]
                 ELSE Returned(t, "RootNotFound")
    /\ UNCHANGED <<lock, active_state, history, result>>

\* checkout: let mut store = self.active_state.lock()
ConcCheckoutStore(t) ==
    /\ thread[t].pc = "checkout_store" /\ Unlocked(t)
    /\ lock' = [lock EXCEPT !.active_state = t]
    /\ thread' = [thread EXCEPT ![t].pc = "checkout_get"]
    /\ UNCHANGED <<active_state, history, result>>

\* checkout: *store = self.history.lock().get(&prestate_hash).unwrap().clone(),
\* and the return, where store is dropped
ConcCheckoutGet(t) ==
    /\ thread[t].pc = "checkout_get" /\ Unlocked(t)
    /\ active_state' = history[thread[t].roots[1]]
    /\ lock' = [lock EXCEPT !.active_state = 0]
    /\ thread' = Returned(t, "Ok")
    /\ UNCHANGED <<history, result>>

\* checkout_multiple: find(|root| !self.history.lock().contains_key(root))
ConcMultipleFind(t) ==
    /\ thread[t].pc = "multiple_find" /\ Unlocked(t)
    /\ thread' = IF thread[t].roots[thread[t].i] \notin DOMAIN history
                 THEN Returned(t, "RootNotFound")
                 ELSE IF thread[t].i < Len(thread[t].roots)
                 THEN [thread EXCEPT ![t].i = @ + 1]
                 ELSE [thread EXCEPT ![t].pc = "multiple_get", ![t].i = 1]
    /\ UNCHANGED <<lock, active_state, history, result>>

\* checkout_multiple: new_root.extend(self.history.lock().get(root).unwrap().clone())
ConcMultipleGet(t) ==
    /\ thread[t].pc = "multiple_get" /\ Unlocked(t)
    /\ thread' = [thread EXCEPT
            ![t].local = Extend(@, history[thread[t].roots[thread[t].i]]),
            ![t].i = @ + 1,
            ![t].pc = IF thread[t].i < Len(thread[t].roots) THEN "multiple_get" ELSE "multiple_store"]
    /\ UNCHANGED <<lock, active_state, history, result>>

\* checkout_multiple: *self.active_state.lock() = new_root
ConcMultipleStore(t) ==
    /\ thread[t].pc = "multiple_store" /\ Unlocked(t)
    /\ active_state' = thread[t].local
    /\ thread' = Returned(t, "Ok")
    /\ UNCHANGED <<lock, history, result>>

\* commit: self.active_state.lock().remove(&k), and the match on what was
\* removed
ConcCommitRemove(t) ==
    /\ thread[t].pc = "commit_remove" /\ Unlocked(t)
    /\ active_state' = Remove(active_state, Head(thread[t].todo))
    /\ thread' =
        IF Committed(active_state, Head(thread[t].todo), thread[t].effects[Head(thread[t].todo)]).res = "Ok"
        THEN [thread EXCEPT ![t].pc = "commit_insert",
                            ![t].pending = Committed(active_state, Head(thread[t].todo),
                                                     thread[t].effects[Head(thread[t].todo)]).v]
        ELSE Returned(t, Committed(active_state, Head(thread[t].todo),
                                   thread[t].effects[Head(thread[t].todo)]).res)
    /\ UNCHANGED <<lock, history, result>>

\* commit: self.active_state.lock().insert(k, v)
ConcCommitInsert(t) ==
    /\ thread[t].pc = "commit_insert" /\ Unlocked(t)
    /\ active_state' = Insert(active_state, Head(thread[t].todo), thread[t].pending)
    /\ thread' = [thread EXCEPT ![t].todo = Tail(@), ![t].pending = NoValue,
                                ![t].pc = IF Tail(thread[t].todo) = <<>> THEN "commit_clone"
                                          ELSE "commit_remove"]
    /\ UNCHANGED <<lock, history, result>>

\* commit as it would be if the guard of the clone were bound by let.
ConcCommitCloneKeepsGuard(t) ==
    /\ thread[t].pc = "commit_clone" /\ Unlocked(t)
    /\ lock' = [lock EXCEPT !.active_state = t]
    /\ thread' = [thread EXCEPT ![t].local = active_state, ![t].pc = "commit_hash"]
    /\ UNCHANGED <<active_state, history, result>>

\* commit: let active_store = self.active_state.lock().clone()
ConcCommitClone(t) ==
    /\ thread[t].pc = "commit_clone" /\ Unlocked(t)
    /\ thread' = [thread EXCEPT ![t].local = active_state, ![t].pc = "commit_hash"]
    /\ UNCHANGED <<lock, active_state, history, result>>

\* commit: let hash = self.get_root_hash()?
ConcCommitHash(t) ==
    /\ thread[t].pc = "commit_hash" /\ Unlocked(t)
    /\ \E order \in IterationOrders(DOMAIN active_state) :
            thread' = [thread EXCEPT ![t].hash = RootHash(active_state, order),
                                     ![t].pc = "commit_store"]
    /\ UNCHANGED <<lock, active_state, history, result>>

\* commit: self.history.lock().insert(hash, active_store)
ConcCommitStore(t) ==
    /\ thread[t].pc = "commit_store" /\ Unlocked(t)
    /\ history' = Insert(history, thread[t].hash, thread[t].local)
    /\ thread' = Returned(t, thread[t].hash)
    /\ UNCHANGED <<lock, active_state, result>>

\* A thread that is in no call
Finished(t) == thread[t].pc = "idle"

\* A thread that waits for a mutex that is held
Blocked(t) == Wants(t) # "none" /\ lock[Wants(t)] # 0

(***************************************************************************)
(* The bonding session contract (integration-testing/contracts/bonding/    *)
(* call/src/lib.rs). The deploy resolves the proof-of-stake contract       *)
(* through the named key "pos" of its account, creates a purse, moves the  *)
(* bond from the main purse of the account to it and calls bond with the   *)
(* purse. The host keeps the calls the deploy makes, in program order.     *)
(***************************************************************************)
\* let bond_amount = U512::from(1)
BOND_AMOUNT == 1
\* revert(1324)
BOND_REVERT_CODE == 1324

\* The state a deploy runs on: the named keys of the account, the values
\* under the keys, the balances of the purses; and the host calls made
BondEnv(known_urefs, store, purses) ==
    [known_urefs |-> known_urefs, store |-> store, purses |-> purses, calls |-> <<>>]

\* A host call of the deploy: what it was given and what it returned
HostCalled(op, source, target, amount, pointer, urefs, ret) ==
    [op |-> op, source |-> source, target |-> target, amount |-> amount,
     pointer |-> pointer, urefs |-> urefs, ret |-> ret]

\* The frame of call(): where it is, and its locals
BondFrame(pc, pos_pointer, source_purse, bonding_purse, status) ==
    [pc |-> pc, pos_pointer |-> pos_pointer, source_purse |-> source_purse,
     bonding_purse |-> bonding_purse, status |-> status]

NoBondEnv == BondEnv(EmptyMap, EmptyMap, EmptyMap)
NoBondFrame == BondFrame("none", NoKey, 0, 0, "None")
BondIdle == bond_env = NoBondEnv /\ bonding = NoBondFrame

\* What the account has under the name "pos", if anything
PosNamedKeys ==
    {NoKey, KeyURef(<<50>>, OptSome(READ)), KeyURef(<<50>>, OptNone), Hash(<<51>>)}
\* What the state has under that URef, if anything
PosStoredValues ==
    {NoValue, KeyValue(Hash(<<51>>)), KeyValue(KeyURef(<<52>>, OptSome(READ))),
     KeyValue(KeyURef(<<52>>, OptNone)), KeyValue(Account(<<GENESIS_ADDR>>)), UInt512(0)}
\* The balance of the main purse of the account
BondBalances == {0, BOND_AMOUNT, BOND_AMOUNT + 1}
\* The purses the state has besides the main purse of the account
BondOtherPurses == {{}, {PurseOf(GENESIS_ADDR) + 1}}

BondPrestate(pos_named, pos_stored, balance, others) ==
    BondEnv(IF pos_named = NoKey THEN EmptyMap ELSE Insert(EmptyMap, "pos", pos_named),
            IF pos_stored = NoValue THEN EmptyMap
            ELSE Insert(EmptyMap, KeyURef(<<50>>, OptNone), pos_stored),
            [p \in {PurseOf(GENESIS_ADDR)} \cup others |->
                UInt512(IF p = PurseOf(GENESIS_ADDR) THEN balance ELSE 0)])

\* The execution of the deploy ends
BondEnds(status) == [bonding EXCEPT !.pc = "done", !.status = status]

\* Lines 17-19 in one value: the pointer to the proof-of-stake contract, or
\* how the deploy ends without it. get_uref traps for a name the account
\* has not; to_u_ptr is None but for a URef with access rights; read gives
\* the Key under the URef; to_c_ptr is None but for a Hash and for a URef
\* with access rights. unwrap of None panics.
PosPointer(e) ==
    IF "pos" \notin DOMAIN e.known_urefs THEN [ok |-> FALSE, status |-> "URefNotFound"]
    ELSE IF ~(e.known_urefs["pos"].tag = UREF_ID /\ e.known_urefs["pos"].access_rights.some)
    THEN [ok |-> FALSE, status |-> "Panic"]
    ELSE IF normalize(e.known_urefs["pos"]) \notin DOMAIN e.store
    THEN [ok |-> FALSE, status |-> "ValueNotFound"]
    ELSE IF e.store[normalize(e.known_urefs["pos"])].tag # KeyValue(NoKey).tag
    THEN [ok |-> FALSE, status |-> "TypeMismatch"]
    ELSE IF ~(\/ e.store[normalize(e.known_urefs["pos"])].key.tag = HASH_ID
              \/ /\ e.store[normalize(e.known_urefs["pos"])].key.tag = UREF_ID
                 /\ e.store[normalize(e.known_urefs["pos"])].key.access_rights.some)
    THEN [ok |-> FALSE, status |-> "Panic"]
    ELSE [ok |-> TRUE, pointer |-> e.store[normalize(e.known_urefs["pos"])].key]

\* A deploy with the bonding contract as its session code starts
BondDeploy(pos_named, pos_stored, balance, others) ==
    /\ bonding.pc \in {"none", "done"}
    /\ bond_env' = BondPrestate(pos_named, pos_stored, balance, others)
    /\ bonding' = BondFrame("resolve", NoKey, 0, 0, "None")

\* get_uref("pos").to_u_ptr().unwrap(), read, to_c_ptr().unwrap()
BondResolvePos ==
    /\ bonding.pc = "resolve"
    /\ bonding' = IF PosPointer(bond_env).ok
                  THEN [bonding EXCEPT !.pc = "purses", !.pos_pointer = PosPointer(bond_env).pointer]
                  ELSE BondEnds(PosPointer(bond_env).status)
    /\ UNCHANGED bond_env

\* create_purse: a purse the state has not yet, with nothing in it
new_purse(purses) == PurseOf(GENESIS_ADDR) + Cardinality(DOMAIN purses)

\* main_purse() and create_purse()
BondPurses ==
    /\ bonding.pc = "purses"
    /\ bonding' = [bonding EXCEPT !.pc = "transfer",
                                  !.source_purse = PurseOf(GENESIS_ADDR),
                                  !.bonding_purse = new_purse(bond_env.purses)]
    /\ bond_env' = [bond_env EXCEPT
            !.purses = Insert(@, new_purse(bond_env.purses), UInt512(0)),
            !.calls = Append(@, HostCalled("create_purse", 0, new_purse(bond_env.purses), 0,
                                           NoKey, <<>>, "PurseId"))]

\* transfer_from_purse_to_purse: a call of the mint
transfer_from_purse_to_purse(purses, source, target, amount) ==
    IF MintTransfer(purses, source, target, amount).ok
    THEN [ret |-> "TransferSuccessful",
          purses |-> CommitToPurses(purses, MintTransfer(purses, source, target, amount).transforms)]
    ELSE [ret |-> "TransferError", purses |-> purses]

BondTransferred ==
    transfer_from_purse_to_purse(bond_env.purses, bonding.source_purse,
                                 bonding.bonding_purse, BOND_AMOUNT)

\* transfer_from_purse_to_purse(source_purse, bonding_purse, bond_amount)
BondTransfer ==
    /\ bonding.pc = "transfer"
    /\ bonding' = [bonding EXCEPT !.pc = "match"]
    /\ bond_env' = [bond_env EXCEPT
            !.purses = BondTransferred.purses,
            !.calls = Append(@, HostCalled("transfer_from_purse_to_purse", bonding.source_purse,
                                           bonding.bonding_purse, BOND_AMOUNT, NoKey, <<>>,
                                           BondTransferred.ret))]

\* call_contract(pos_pointer, &("bond", bond_amount, bonding_purse),
\*               &vec![Key::URef(bonding_purse.value())])
CallsBond(e, frame) ==
    [e EXCEPT !.calls = Append(@, HostCalled("call_contract", 0, frame.bonding_purse,
                                               BOND_AMOUNT, frame.pos_pointer,
                                               <<frame.bonding_purse>>, "bond"))]

\* revert(1324): the effects of the deploy are discarded
Reverts(e, code) ==
    [e EXCEPT !.calls = Append(@, HostCalled("revert", 0, 0, code, NoKey, <<>>, "Revert"))]

\* The match as it would be with the call of bond in both of its arms
BondMatchCallsEither(last) ==
    /\ bonding.pc = "match"
    /\ bond_env' = CallsBond(bond_env, bonding)
    /\ bonding' = BondEnds("Success")

\* match: TransferSuccessful => call_contract, TransferError => revert(1324)
BondMatch(last) ==
    /\ bonding.pc = "match"
    /\ IF last.ret = "TransferSuccessful"
       THEN /\ bond_env' = CallsBond(bond_env, bonding)
            /\ bonding' = BondEnds("Success")
       ELSE /\ bond_env' = Reverts(bond_env, BOND_REVERT_CODE)
            /\ bonding' = BondEnds("Revert")

(***************************************************************************)
(* Specifications.                                                         *)
(***************************************************************************)
\* The store on its own: every call of InMemGS, in any order.
StoreOnlyInit == StoreInit /\ DetIdle /\ TcIdle /\ ExecIdle /\ TrieIdle /\ PairIdle /\ AlgIdle /\ RtIdle /\ URefIdle /\ SrvIdle /\ SerIdle /\ NormIdle /\ WriteIdle /\ XferIdle /\ CtrIdle /\ ValIdle /\ QryIdle /\ GenIdle /\ RespIdle /\ ConcIdle /\ BondIdle

StoreOnlyNext ==
    \/ \E k \in Keys : Get(k) /\ UNCHANGED <<detVars, tcVars, execVars, trieVars, pairVars, algVars, rtVars, urefVars, srvVars, serVars, normVars, writeVars, xferVars, ctrVars, valVars, qryVars, genVars, respVars, concVars, bondVars>>
    \/ \E root \in DOMAIN history \cup {UnknownRoot} :
            Checkout(root) /\ UNCHANGED <<detVars, tcVars, execVars, trieVars, pairVars, algVars, rtVars, urefVars, srvVars, serVars, normVars, writeVars, xferVars, ctrVars, valVars, qryVars, genVars, respVars, concVars, bondVars>>
    \/ \E r1, r2 \in DOMAIN history \cup {UnknownRoot} :
            CheckoutMultiple(<<r1, r2>>) /\ UNCHANGED <<detVars, tcVars, execVars, trieVars, pairVars, algVars, rtVars, urefVars, srvVars, serVars, normVars, writeVars, xferVars, ctrVars, valVars, qryVars, genVars, respVars, concVars, bondVars>>
    \/ \E effects \in EffectSets : Commit(effects) /\ UNCHANGED <<detVars, tcVars, execVars, trieVars, pairVars, algVars, rtVars, urefVars, srvVars, serVars, normVars, writeVars, xferVars, ctrVars, valVars, qryVars, genVars, respVars, concVars, bondVars>>
    \/ GetRootHash /\ UNCHANGED <<detVars, tcVars, execVars, trieVars, pairVars, algVars, rtVars, urefVars, srvVars, serVars, normVars, writeVars, xferVars, ctrVars, valVars, qryVars, genVars, respVars, concVars, bondVars>>

SpecStore == StoreOnlyInit /\ [][StoreOnlyNext]_vars

\* Commits on checked-out roots, the prestate root of each kept beside the store.
DetInit == StoreInit /\ DetIdle /\ TcIdle /\ ExecIdle /\ TrieIdle /\ PairIdle /\ AlgIdle /\ RtIdle /\ URefIdle /\ SrvIdle /\ SerIdle /\ NormIdle /\ WriteIdle /\ XferIdle /\ CtrIdle /\ ValIdle /\ QryIdle /\ GenIdle /\ RespIdle /\ ConcIdle /\ BondIdle

DetNext ==
    \/ \E root \in DOMAIN history \cup {UnknownRoot} : DetCheckout(root) /\ UNCHANGED <<tcVars, execVars, trieVars, pairVars, algVars, rtVars, urefVars, srvVars, serVars, normVars, writeVars, xferVars, ctrVars, valVars, qryVars, genVars, respVars, concVars, bondVars>>
    \/ \E effects \in DetEffectSets : DetCommit(effects) /\ UNCHANGED <<tcVars, execVars, trieVars, pairVars, algVars, rtVars, urefVars, srvVars, serVars, normVars, writeVars, xferVars, ctrVars, valVars, qryVars, genVars, respVars, concVars, bondVars>>

SpecDet == DetInit /\ [][DetNext]_vars

\* One tracking copy in use while the store it reads is checked out at other
\* roots and committed to.
TcInit == StoreInit /\ DetIdle /\ TcIdle /\ ExecIdle /\ TrieIdle /\ PairIdle /\ AlgIdle /\ RtIdle /\ URefIdle /\ SrvIdle /\ SerIdle /\ NormIdle /\ WriteIdle /\ XferIdle /\ CtrIdle /\ ValIdle /\ QryIdle /\ GenIdle /\ RespIdle /\ ConcIdle /\ BondIdle

TcNext ==
    \/ \E root \in DOMAIN history \cup {UnknownRoot} : TcCheckout(root) /\ UNCHANGED <<detVars, execVars, trieVars, pairVars, algVars, rtVars, urefVars, srvVars, serVars, normVars, writeVars, xferVars, ctrVars, valVars, qryVars, genVars, respVars, concVars, bondVars>>
    \/ \E root \in DOMAIN history : Checkout(root) /\ UNCHANGED <<detVars, tcVars, execVars, trieVars, pairVars, algVars, rtVars, urefVars, srvVars, serVars, normVars, writeVars, xferVars, ctrVars, valVars, qryVars, genVars, respVars, concVars, bondVars>>
    \/ \E effects \in TcEffectSets : Commit(effects) /\ UNCHANGED <<detVars, tcVars, execVars, trieVars, pairVars, algVars, rtVars, urefVars, srvVars, serVars, normVars, writeVars, xferVars, ctrVars, valVars, qryVars, genVars, respVars, concVars, bondVars>>
    \/ \E k \in Keys : TcRead(k) /\ UNCHANGED <<detVars, execVars, trieVars, pairVars, algVars, rtVars, urefVars, srvVars, serVars, normVars, writeVars, xferVars, ctrVars, valVars, qryVars, genVars, respVars, concVars, bondVars>>
    \/ \E k \in Keys, v \in Values : TcWrite(k, v) /\ UNCHANGED <<detVars, execVars, trieVars, pairVars, algVars, rtVars, urefVars, srvVars, serVars, normVars, writeVars, xferVars, ctrVars, valVars, qryVars, genVars, respVars, concVars, bondVars>>
    \/ \E k \in Keys : TcAdd(k, AddInt32(1)) /\ UNCHANGED <<detVars, execVars, trieVars, pairVars, algVars, rtVars, urefVars, srvVars, serVars, normVars, writeVars, xferVars, ctrVars, valVars, qryVars, genVars, respVars, concVars, bondVars>>

SpecTC == TcInit /\ [][TcNext]_vars

\* Exec requests and single deploys run on a store that is committed to.
ExecInit == StoreInit /\ DetIdle /\ TcIdle /\ ExecIdle /\ TrieIdle /\ PairIdle /\ AlgIdle /\ RtIdle /\ URefIdle /\ SrvIdle /\ SerIdle /\ NormIdle /\ WriteIdle /\ XferIdle /\ CtrIdle /\ ValIdle /\ QryIdle /\ GenIdle /\ RespIdle /\ ConcIdle /\ BondIdle

ExecNext ==
    \/ \E effects \in TcEffectSets : Commit(effects) /\ UNCHANGED <<detVars, tcVars, execVars, trieVars, pairVars, algVars, rtVars, urefVars, srvVars, serVars, normVars, writeVars, xferVars, ctrVars, valVars, qryVars, genVars, respVars, concVars, bondVars>>
    \/ \E root \in DOMAIN history \cup {UnknownRoot}, module_bytes \in Modules :
            RunDeploy(module_bytes, root) /\ UNCHANGED <<detVars, tcVars, trieVars, pairVars, algVars, rtVars, urefVars, srvVars, serVars, normVars, writeVars, xferVars, ctrVars, valVars, qryVars, genVars, respVars, concVars, bondVars>>
    \/ \E root \in DOMAIN history \cup {UnknownRoot}, deploys \in DeployLists :
            Exec(root, deploys) /\ UNCHANGED <<detVars, tcVars, trieVars, pairVars, algVars, rtVars, urefVars, srvVars, serVars, normVars, writeVars, xferVars, ctrVars, valVars, qryVars, genVars, respVars, concVars, bondVars>>

SpecExec == ExecInit /\ [][ExecNext]_vars

\* One environment of the trie store, of either backend, and its transactions.
TrieInit == StoreInit /\ DetIdle /\ TcIdle /\ ExecIdle /\ NewEnvironment /\ PairIdle /\ AlgIdle /\ RtIdle /\ URefIdle /\ SrvIdle /\ SerIdle /\ NormIdle /\ WriteIdle /\ XferIdle /\ CtrIdle /\ ValIdle /\ QryIdle /\ GenIdle /\ RespIdle /\ ConcIdle /\ BondIdle

TrieNext ==
    \/ CreateReadWriteTxn /\ UNCHANGED <<storeVars, detVars, tcVars, execVars, pairVars, algVars, rtVars, urefVars, srvVars, serVars, normVars, writeVars, xferVars, ctrVars, valVars, qryVars, genVars, respVars, concVars, bondVars>>
    \/ \E item \in Items : Put(item) /\ UNCHANGED <<storeVars, detVars, tcVars, execVars, pairVars, algVars, rtVars, urefVars, srvVars, serVars, normVars, writeVars, xferVars, ctrVars, valVars, qryVars, genVars, respVars, concVars, bondVars>>
    \/ TxnCommit /\ UNCHANGED <<storeVars, detVars, tcVars, execVars, pairVars, algVars, rtVars, urefVars, srvVars, serVars, normVars, writeVars, xferVars, ctrVars, valVars, qryVars, genVars, respVars, concVars, bondVars>>
    \/ TxnDrop /\ UNCHANGED <<storeVars, detVars, tcVars, execVars, pairVars, algVars, rtVars, urefVars, srvVars, serVars, normVars, writeVars, xferVars, ctrVars, valVars, qryVars, genVars, respVars, concVars, bondVars>>
    \/ \E item \in Items : ReadTxnGet(item.hash) /\ UNCHANGED <<storeVars, detVars, tcVars, execVars, pairVars, algVars, rtVars, urefVars, srvVars, serVars, normVars, writeVars, xferVars, ctrVars, valVars, qryVars, genVars, respVars, concVars, bondVars>>

SpecTrie == TrieInit /\ [][TrieNext]_vars

\* The same transaction operations made on an in-memory and on an LMDB
\* environment.
BackendsInit == StoreInit /\ DetIdle /\ TcIdle /\ ExecIdle /\ TrieIdle /\ PairIdle /\ AlgIdle /\ RtIdle /\ URefIdle /\ SrvIdle /\ SerIdle /\ NormIdle /\ WriteIdle /\ XferIdle /\ CtrIdle /\ ValIdle /\ QryIdle /\ GenIdle /\ RespIdle /\ ConcIdle /\ BondIdle

BackendsNext ==
    \/ PairCreateReadWriteTxn /\ UNCHANGED <<storeVars, detVars, tcVars, execVars, trieVars, algVars, rtVars, urefVars, srvVars, serVars, normVars, writeVars, xferVars, ctrVars, valVars, qryVars, genVars, respVars, concVars, bondVars>>
    \/ \E item \in Items : PairPut(item) /\ UNCHANGED <<storeVars, detVars, tcVars, execVars, trieVars, algVars, rtVars, urefVars, srvVars, serVars, normVars, writeVars, xferVars, ctrVars, valVars, qryVars, genVars, respVars, concVars, bondVars>>
    \/ \E keys \in KeyLists : PairGetMany(keys) /\ UNCHANGED <<storeVars, detVars, tcVars, execVars, trieVars, algVars, rtVars, urefVars, srvVars, serVars, normVars, writeVars, xferVars, ctrVars, valVars, qryVars, genVars, respVars, concVars, bondVars>>
    \/ PairCommit /\ UNCHANGED <<storeVars, detVars, tcVars, execVars, trieVars, algVars, rtVars, urefVars, srvVars, serVars, normVars, writeVars, xferVars, ctrVars, valVars, qryVars, genVars, respVars, concVars, bondVars>>
    \/ PairDrop /\ UNCHANGED <<storeVars, detVars, tcVars, execVars, trieVars, algVars, rtVars, urefVars, srvVars, serVars, normVars, writeVars, xferVars, ctrVars, valVars, qryVars, genVars, respVars, concVars, bondVars>>

SpecBackends == BackendsInit /\ [][BackendsNext]_vars

\* The transform algebra on drawn inputs.
AlgInit == StoreInit /\ DetIdle /\ TcIdle /\ ExecIdle /\ TrieIdle /\ PairIdle /\ AlgDraw /\ RtIdle /\ URefIdle /\ SrvIdle /\ SerIdle /\ NormIdle /\ WriteIdle /\ XferIdle /\ CtrIdle /\ ValIdle /\ QryIdle /\ GenIdle /\ RespIdle /\ ConcIdle /\ BondIdle

AlgNext ==
    \/ \E c \in AlgTransforms : AlgComposeThree(c) /\ UNCHANGED <<storeVars, detVars, tcVars, execVars, trieVars, pairVars, rtVars, urefVars, srvVars, serVars, normVars, writeVars, xferVars, ctrVars, valVars, qryVars, genVars, respVars, concVars, bondVars>>
    \/ AlgApplyComposed /\ UNCHANGED <<storeVars, detVars, tcVars, execVars, trieVars, pairVars, rtVars, urefVars, srvVars, serVars, normVars, writeVars, xferVars, ctrVars, valVars, qryVars, genVars, respVars, concVars, bondVars>>
    \/ AlgApply /\ UNCHANGED <<storeVars, detVars, tcVars, execVars, trieVars, pairVars, rtVars, urefVars, srvVars, serVars, normVars, writeVars, xferVars, ctrVars, valVars, qryVars, genVars, respVars, concVars, bondVars>>

SpecAlgebra == AlgInit /\ [][AlgNext]_vars

\* The deploys of one request executed one after the other, each making host
\* calls until it returns, traps or the host panics.
RuntimeInit == StoreInit /\ DetIdle /\ TcIdle /\ ExecIdle /\ TrieIdle /\ PairIdle /\ AlgIdle /\ RtIdle /\ URefIdle /\ SrvIdle /\ SerIdle /\ NormIdle /\ WriteIdle /\ XferIdle /\ CtrIdle /\ ValIdle /\ QryIdle /\ GenIdle /\ RespIdle /\ ConcIdle /\ BondIdle

RuntimeNext ==
    \/ \E limit \in GasLimits : StartDeploy(limit) /\ UNCHANGED <<storeVars, detVars, tcVars, execVars, trieVars, pairVars, algVars, urefVars, srvVars, serVars, normVars, writeVars, xferVars, ctrVars, valVars, qryVars, genVars, respVars, concVars, bondVars>>
    \/ \E n \in 1..MaxGas : InvokeGas(n) /\ UNCHANGED <<storeVars, detVars, tcVars, execVars, trieVars, pairVars, algVars, urefVars, srvVars, serVars, normVars, writeVars, xferVars, ctrVars, valVars, qryVars, genVars, respVars, concVars, bondVars>>
    \/ \E k \in {Hash(<<42>>)}, v \in Values : InvokeWrite(k, v) /\ UNCHANGED <<storeVars, detVars, tcVars, execVars, trieVars, pairVars, algVars, urefVars, srvVars, serVars, normVars, writeVars, xferVars, ctrVars, valVars, qryVars, genVars, respVars, concVars, bondVars>>
    \/ \E status \in RevertCodes : InvokeRevert(status) /\ UNCHANGED <<storeVars, detVars, tcVars, execVars, trieVars, pairVars, algVars, urefVars, srvVars, serVars, normVars, writeVars, xferVars, ctrVars, valVars, qryVars, genVars, respVars, concVars, bondVars>>
    \/ \E dest_size \in {Len(PurseBytes), Len(PurseBytes) + 1} :
            InvokeCreatePurse(dest_size) /\ UNCHANGED <<storeVars, detVars, tcVars, execVars, trieVars, pairVars, algVars, urefVars, srvVars, serVars, normVars, writeVars, xferVars, ctrVars, valVars, qryVars, genVars, respVars, concVars, bondVars>>
    \/ ModuleReturns /\ UNCHANGED <<storeVars, detVars, tcVars, execVars, trieVars, pairVars, algVars, urefVars, srvVars, serVars, normVars, writeVars, xferVars, ctrVars, valVars, qryVars, genVars, respVars, concVars, bondVars>>

SpecRuntime == RuntimeInit /\ [][RuntimeNext]_vars

\* The host calls of one deploy that name URefs, from the session code and
\* from the contracts it calls.
URefInit == StoreInit /\ DetIdle /\ TcIdle /\ ExecIdle /\ TrieIdle /\ PairIdle /\ AlgIdle /\ RtIdle /\ URefStart /\ SrvIdle /\ SerIdle /\ NormIdle /\ WriteIdle /\ XferIdle /\ CtrIdle /\ ValIdle /\ QryIdle /\ GenIdle /\ RespIdle /\ ConcIdle /\ BondIdle

URefNext ==
    \/ \E uref \in URefs : URefRead(uref) /\ UNCHANGED <<storeVars, detVars, tcVars, execVars, trieVars, pairVars, algVars, rtVars, srvVars, serVars, normVars, writeVars, xferVars, ctrVars, valVars, qryVars, genVars, respVars, concVars, bondVars>>
    \/ \E uref \in URefs : URefWrite(uref) /\ UNCHANGED <<storeVars, detVars, tcVars, execVars, trieVars, pairVars, algVars, rtVars, srvVars, serVars, normVars, writeVars, xferVars, ctrVars, valVars, qryVars, genVars, respVars, concVars, bondVars>>
    \/ \E uref \in URefs : URefAdd(uref) /\ UNCHANGED <<storeVars, detVars, tcVars, execVars, trieVars, pairVars, algVars, rtVars, srvVars, serVars, normVars, writeVars, xferVars, ctrVars, valVars, qryVars, genVars, respVars, concVars, bondVars>>
    \/ \E uref \in URefs : IsValidURef(uref) /\ UNCHANGED <<storeVars, detVars, tcVars, execVars, trieVars, pairVars, algVars, rtVars, srvVars, serVars, normVars, writeVars, xferVars, ctrVars, valVars, qryVars, genVars, respVars, concVars, bondVars>>
    \/ NewURef /\ UNCHANGED <<storeVars, detVars, tcVars, execVars, trieVars, pairVars, algVars, rtVars, srvVars, serVars, normVars, writeVars, xferVars, ctrVars, valVars, qryVars, genVars, respVars, concVars, bondVars>>
    \/ \E passed \in PassedURefs : CallContract(passed) /\ UNCHANGED <<storeVars, detVars, tcVars, execVars, trieVars, pairVars, algVars, rtVars, srvVars, serVars, normVars, writeVars, xferVars, ctrVars, valVars, qryVars, genVars, respVars, concVars, bondVars>>
    \/ \E returned \in PassedURefs : Ret(returned) /\ UNCHANGED <<storeVars, detVars, tcVars, execVars, trieVars, pairVars, algVars, rtVars, srvVars, serVars, normVars, writeVars, xferVars, ctrVars, valVars, qryVars, genVars, respVars, concVars, bondVars>>

SpecURef == URefInit /\ [][URefNext]_vars

\* Requests to the service, on a store that is also committed to directly.
ServerInit == StoreInit /\ DetIdle /\ TcIdle /\ ExecIdle /\ TrieIdle /\ PairIdle /\ AlgIdle /\ RtIdle /\ URefIdle /\ SrvIdle /\ SerIdle /\ NormIdle /\ WriteIdle /\ XferIdle /\ CtrIdle /\ ValIdle /\ QryIdle /\ GenIdle /\ RespIdle /\ ConcIdle /\ BondIdle

ServerNext ==
    \/ \E effects \in TcEffectSets : Commit(effects) /\ UNCHANGED <<detVars, tcVars, execVars, trieVars, pairVars, algVars, rtVars, urefVars, srvVars, serVars, normVars, writeVars, xferVars, ctrVars, valVars, qryVars, genVars, respVars, concVars, bondVars>>
    \/ \E root \in DOMAIN history \cup {UnknownRoot}, len \in HashLengths, parses \in BOOLEAN, k \in Keys :
            SrvQuery(HashField(root, len), parses, k) /\ UNCHANGED <<detVars, tcVars, execVars, trieVars, pairVars, algVars, rtVars, urefVars, serVars, normVars, writeVars, xferVars, ctrVars, valVars, qryVars, genVars, respVars, concVars, bondVars>>
    \/ \E root \in DOMAIN history \cup {UnknownRoot}, len \in HashLengths,
          version \in ProtocolVersions, deploys \in RequestDeploys :
            SrvExec(HashField(root, len), version, deploys) /\ UNCHANGED <<detVars, tcVars, execVars, trieVars, pairVars, algVars, rtVars, urefVars, serVars, normVars, writeVars, xferVars, ctrVars, valVars, qryVars, genVars, concVars, bondVars>>
    \/ \E root \in DOMAIN history \cup {UnknownRoot}, len \in HashLengths,
          parses \in BOOLEAN, effects \in CommitEffects :
            SrvCommit(HashField(root, len), parses, effects) /\ UNCHANGED <<detVars, tcVars, execVars, trieVars, pairVars, algVars, rtVars, urefVars, serVars, normVars, writeVars, xferVars, ctrVars, valVars, qryVars, genVars, respVars, concVars, bondVars>>

SpecServer == ServerInit /\ [][ServerNext]_vars

\* Values serialized and parsed back.
SerInit == StoreInit /\ DetIdle /\ TcIdle /\ ExecIdle /\ TrieIdle /\ PairIdle /\ AlgIdle /\ RtIdle /\ URefIdle /\ SrvIdle /\ SerDraw /\ NormIdle /\ WriteIdle /\ XferIdle /\ CtrIdle /\ ValIdle /\ QryIdle /\ GenIdle /\ RespIdle /\ ConcIdle /\ BondIdle

SerNext ==
    \/ SerToBytes /\ UNCHANGED <<storeVars, detVars, tcVars, execVars, trieVars, pairVars, algVars, rtVars, urefVars, srvVars, normVars, writeVars, xferVars, ctrVars, valVars, qryVars, genVars, respVars, concVars, bondVars>>
    \/ SerFromBytes /\ UNCHANGED <<storeVars, detVars, tcVars, execVars, trieVars, pairVars, algVars, rtVars, urefVars, srvVars, normVars, writeVars, xferVars, ctrVars, valVars, qryVars, genVars, respVars, concVars, bondVars>>

\* from_bytes on bytes that arrive, and to_bytes on what they decode to.
DecInit == StoreInit /\ DetIdle /\ TcIdle /\ ExecIdle /\ TrieIdle /\ PairIdle /\ AlgIdle /\ RtIdle /\ URefIdle /\ SrvIdle /\ DecReceive /\ NormIdle /\ WriteIdle /\ XferIdle /\ CtrIdle /\ ValIdle /\ QryIdle /\ GenIdle /\ RespIdle /\ ConcIdle /\ BondIdle

DecNext ==
    \/ DecFromBytes /\ UNCHANGED <<storeVars, detVars, tcVars, execVars, trieVars, pairVars, algVars, rtVars, urefVars, srvVars, normVars, writeVars, xferVars, ctrVars, valVars, qryVars, genVars, respVars, concVars, bondVars>>
    \/ DecToBytes /\ UNCHANGED <<storeVars, detVars, tcVars, execVars, trieVars, pairVars, algVars, rtVars, urefVars, srvVars, normVars, writeVars, xferVars, ctrVars, valVars, qryVars, genVars, respVars, concVars, bondVars>>
    \/ DecTestRights /\ UNCHANGED <<storeVars, detVars, tcVars, execVars, trieVars, pairVars, algVars, rtVars, urefVars, srvVars, normVars, writeVars, xferVars, ctrVars, valVars, qryVars, genVars, respVars, concVars, bondVars>>

SpecDecoding == DecInit /\ [][DecNext]_vars

\* Keys drawn, normalized and compared.
NormInit == StoreInit /\ DetIdle /\ TcIdle /\ ExecIdle /\ TrieIdle /\ PairIdle /\ AlgIdle /\ RtIdle /\ URefIdle /\ SrvIdle /\ SerIdle /\ NormDraw /\ WriteIdle /\ XferIdle /\ CtrIdle /\ ValIdle /\ QryIdle /\ GenIdle /\ RespIdle /\ ConcIdle /\ BondIdle

NormNext ==
    \/ NormNormalize /\ UNCHANGED <<storeVars, detVars, tcVars, execVars, trieVars, pairVars, algVars, rtVars, urefVars, srvVars, serVars, writeVars, xferVars, ctrVars, valVars, qryVars, genVars, respVars, concVars, bondVars>>
    \/ NormAgain /\ UNCHANGED <<storeVars, detVars, tcVars, execVars, trieVars, pairVars, algVars, rtVars, urefVars, srvVars, serVars, writeVars, xferVars, ctrVars, valVars, qryVars, genVars, respVars, concVars, bondVars>>
    \/ NormCompare /\ UNCHANGED <<storeVars, detVars, tcVars, execVars, trieVars, pairVars, algVars, rtVars, urefVars, srvVars, serVars, writeVars, xferVars, ctrVars, valVars, qryVars, genVars, respVars, concVars, bondVars>>

SpecNormalize == NormInit /\ [][NormNext]_vars

\* Two tries written to, each in an order of its own.
WriteInit == StoreInit /\ DetIdle /\ TcIdle /\ ExecIdle /\ TrieIdle /\ PairIdle /\ AlgIdle /\ RtIdle /\ URefIdle /\ SrvIdle /\ SerIdle /\ NormIdle /\ WriteIdle /\ XferIdle /\ CtrIdle /\ ValIdle /\ QryIdle /\ GenIdle /\ RespIdle /\ ConcIdle /\ BondIdle

WriteNext ==
    \/ \E entry \in WriteEntries : WriteLeft(entry) /\ UNCHANGED <<storeVars, detVars, tcVars, execVars, trieVars, pairVars, algVars, rtVars, urefVars, srvVars, serVars, normVars, xferVars, ctrVars, valVars, qryVars, genVars, respVars, concVars, bondVars>>
    \/ \E entry \in WriteEntries : WriteRight(entry) /\ UNCHANGED <<storeVars, detVars, tcVars, execVars, trieVars, pairVars, algVars, rtVars, urefVars, srvVars, serVars, normVars, xferVars, ctrVars, valVars, qryVars, genVars, respVars, concVars, bondVars>>

SpecTrieWrite == WriteInit /\ [][WriteNext]_vars

\* Transfer deploys by the accounts that exist, each committed.
XferInit == StoreInit /\ DetIdle /\ TcIdle /\ ExecIdle /\ TrieIdle /\ PairIdle /\ AlgIdle /\ RtIdle /\ URefIdle /\ SrvIdle /\ SerIdle /\ NormIdle /\ WriteIdle /\ XferIdle /\ CtrIdle /\ ValIdle /\ QryIdle /\ GenIdle /\ RespIdle /\ ConcIdle /\ BondIdle

XferNext ==
    \E from \in XferAccounts, target \in XferAccounts, amount \in 0..U512_MAX :
        TransferDeploy(from, target, amount) /\ UNCHANGED <<storeVars, detVars, tcVars, execVars, trieVars, pairVars, algVars, rtVars, urefVars, srvVars, serVars, normVars, writeVars, ctrVars, valVars, qryVars, genVars, respVars, concVars, bondVars>>

SpecTransfer == XferInit /\ [][XferNext]_vars

\* The counter contract defined and then invoked, each deploy committed.
CtrInit == StoreInit /\ DetIdle /\ TcIdle /\ ExecIdle /\ TrieIdle /\ PairIdle /\ AlgIdle /\ RtIdle /\ URefIdle /\ SrvIdle /\ SerIdle /\ NormIdle /\ WriteIdle /\ XferIdle /\ CtrIdle /\ ValIdle /\ QryIdle /\ GenIdle /\ RespIdle /\ ConcIdle /\ BondIdle

CtrNext ==
    \/ CounterDefine /\ UNCHANGED <<storeVars, detVars, tcVars, execVars, trieVars, pairVars, algVars, rtVars, urefVars, srvVars, serVars, normVars, writeVars, xferVars, valVars, qryVars, genVars, respVars, concVars, bondVars>>
    \/ \E method_name \in CounterMethods :
        CounterInvoke(method_name) /\ UNCHANGED <<storeVars, detVars, tcVars, execVars, trieVars, pairVars, algVars, rtVars, urefVars, srvVars, serVars, normVars, writeVars, xferVars, valVars, qryVars, genVars, respVars, concVars, bondVars>>

SpecCounter == CtrInit /\ [][CtrNext]_vars

\* Validate requests sent to a server whose store receives commits.
ValidateInit == StoreInit /\ DetIdle /\ TcIdle /\ ExecIdle /\ TrieIdle /\ PairIdle /\ AlgIdle /\ RtIdle /\ URefIdle /\ SrvIdle /\ SerIdle /\ NormIdle /\ WriteIdle /\ XferIdle /\ CtrIdle /\ ValIdle /\ QryIdle /\ GenIdle /\ RespIdle /\ ConcIdle /\ BondIdle

ValidateNext ==
    \/ \E effects \in TcEffectSets : Commit(effects) /\ UNCHANGED <<detVars, tcVars, execVars, trieVars, pairVars, algVars, rtVars, urefVars, serVars, normVars, writeVars, xferVars, ctrVars, srvVars, valVars, qryVars, genVars, respVars, concVars, bondVars>>
    \/ \E payment_code \in ValidateCodes, session_code \in ValidateCodes :
            SrvValidate(payment_code, session_code) /\ UNCHANGED <<detVars, tcVars, execVars, trieVars, pairVars, algVars, rtVars, urefVars, serVars, normVars, writeVars, xferVars, ctrVars, qryVars, genVars, respVars, concVars, bondVars>>

SpecValidate == ValidateInit /\ [][ValidateNext]_vars

\* Queries of a snapshot, from every base key and along every path.
QueryInit == StoreInit /\ DetIdle /\ TcIdle /\ ExecIdle /\ TrieIdle /\ PairIdle /\ AlgIdle /\ RtIdle /\ URefIdle /\ SrvIdle /\ SerIdle /\ NormIdle /\ WriteIdle /\ XferIdle /\ CtrIdle /\ ValIdle /\ QryIdle /\ GenIdle /\ RespIdle /\ ConcIdle /\ BondIdle

QueryNext ==
    \E base_key \in QueryKeys, path \in QueryPaths :
        QueryState(base_key, path) /\ UNCHANGED <<storeVars, detVars, tcVars, execVars, trieVars, pairVars, algVars, rtVars, urefVars, srvVars, serVars, normVars, writeVars, xferVars, ctrVars, valVars, genVars, respVars, concVars, bondVars>>

SpecQuery == QueryInit /\ [][QueryNext]_vars

\* Genesis effects created, created again, and committed.
GenesisInit == StoreInit /\ DetIdle /\ TcIdle /\ ExecIdle /\ TrieIdle /\ PairIdle /\ AlgIdle /\ RtIdle /\ URefIdle /\ SrvIdle /\ SerIdle /\ NormIdle /\ WriteIdle /\ XferIdle /\ CtrIdle /\ ValIdle /\ QryIdle /\ GenIdle /\ RespIdle /\ ConcIdle /\ BondIdle

GenesisNext ==
    \/ \E genesis_account_addr \in GenesisAddrs, initial_tokens \in GenesisTokenAmounts,
          genesis_validators \in GenesisValidatorLists,
          mint_perm \in MintPermutations, pos_perm \in PosPermutations :
            GenCreate(genesis_account_addr, initial_tokens, genesis_validators, mint_perm, pos_perm)
                /\ UNCHANGED <<storeVars, detVars, tcVars, execVars, trieVars, pairVars, algVars, rtVars, urefVars, srvVars, serVars, normVars, writeVars, xferVars, ctrVars, valVars, qryVars, respVars, concVars, bondVars>>
    \/ \E mint_perm \in MintPermutations, pos_perm \in PosPermutations :
            GenCreateAgain(mint_perm, pos_perm) /\ UNCHANGED <<storeVars, detVars, tcVars, execVars, trieVars, pairVars, algVars, rtVars, urefVars, srvVars, serVars, normVars, writeVars, xferVars, ctrVars, valVars, qryVars, respVars, concVars, bondVars>>
    \/ GenDraw /\ UNCHANGED <<storeVars, detVars, tcVars, execVars, trieVars, pairVars, algVars, rtVars, urefVars, srvVars, serVars, normVars, writeVars, xferVars, ctrVars, valVars, qryVars, respVars, concVars, bondVars>>
    \/ \E perm \in CommitPermutations : GenCommit(perm) /\ UNCHANGED <<storeVars, detVars, tcVars, execVars, trieVars, pairVars, algVars, rtVars, urefVars, srvVars, serVars, normVars, writeVars, xferVars, ctrVars, valVars, qryVars, respVars, concVars, bondVars>>

SpecGenesis == GenesisInit /\ [][GenesisNext]_vars

\* Commits of effects of every kind of transform.
CommitInit == StoreInit /\ DetIdle /\ TcIdle /\ ExecIdle /\ TrieIdle /\ PairIdle /\ AlgIdle /\ RtIdle /\ URefIdle /\ SrvIdle /\ SerIdle /\ NormIdle /\ WriteIdle /\ XferIdle /\ CtrIdle /\ ValIdle /\ QryIdle /\ GenIdle /\ RespIdle /\ ConcIdle /\ BondIdle

CommitNext ==
    \E effects \in PerKeyEffects : Commit(effects) /\ UNCHANGED <<detVars, tcVars, execVars, trieVars, pairVars, algVars, rtVars, urefVars, srvVars, serVars, normVars, writeVars, xferVars, ctrVars, valVars, qryVars, genVars, respVars, concVars, bondVars>>

SpecCommit == CommitInit /\ [][CommitNext]_vars

\* Threads that call one store concurrently; every thread that can take a
\* step is scheduled in the end.
ConcInit == StoreInit /\ DetIdle /\ TcIdle /\ ExecIdle /\ TrieIdle /\ PairIdle /\ AlgIdle /\ RtIdle /\ URefIdle /\ SrvIdle /\ SerIdle /\ NormIdle /\ WriteIdle /\ XferIdle /\ CtrIdle /\ ValIdle /\ QryIdle /\ GenIdle /\ RespIdle /\ ConcIdle /\ BondIdle

ConcRoots == DOMAIN history \cup {UnknownRoot}

ConcNext ==
    \/ \E t \in Threads : ConcCall(t, "get", <<>>, EmptyMap, <<>>) /\ UNCHANGED <<detVars, tcVars, execVars, trieVars, pairVars, algVars, rtVars, urefVars, srvVars, serVars, normVars, writeVars, xferVars, ctrVars, valVars, qryVars, genVars, respVars, bondVars>>
    \/ \E t \in Threads : ConcCall(t, "get_root_hash", <<>>, EmptyMap, <<>>) /\ UNCHANGED <<detVars, tcVars, execVars, trieVars, pairVars, algVars, rtVars, urefVars, srvVars, serVars, normVars, writeVars, xferVars, ctrVars, valVars, qryVars, genVars, respVars, bondVars>>
    \/ \E t \in Threads, root \in ConcRoots :
            ConcCall(t, "checkout_contains", <<root>>, EmptyMap, <<>>) /\ UNCHANGED <<detVars, tcVars, execVars, trieVars, pairVars, algVars, rtVars, urefVars, srvVars, serVars, normVars, writeVars, xferVars, ctrVars, valVars, qryVars, genVars, respVars, bondVars>>
    \/ \E t \in Threads, r1 \in DOMAIN history, r2 \in ConcRoots :
            ConcCall(t, "multiple_find", <<r1, r2>>, EmptyMap, <<>>) /\ UNCHANGED <<detVars, tcVars, execVars, trieVars, pairVars, algVars, rtVars, urefVars, srvVars, serVars, normVars, writeVars, xferVars, ctrVars, valVars, qryVars, genVars, respVars, bondVars>>
    \/ \E t \in Threads, effects \in TcEffectSets \cup {EmptyMap} :
        \E order \in IterationOrders(DOMAIN effects) :
            ConcCall(t, "commit_remove", <<>>, effects, order) /\ UNCHANGED <<detVars, tcVars, execVars, trieVars, pairVars, algVars, rtVars, urefVars, srvVars, serVars, normVars, writeVars, xferVars, ctrVars, valVars, qryVars, genVars, respVars, bondVars>>
    \/ \E t \in Threads : ConcGet(t) /\ UNCHANGED <<detVars, tcVars, execVars, trieVars, pairVars, algVars, rtVars, urefVars, srvVars, serVars, normVars, writeVars, xferVars, ctrVars, valVars, qryVars, genVars, respVars, bondVars>>
    \/ \E t \in Threads : ConcGetRootHash(t) /\ UNCHANGED <<detVars, tcVars, execVars, trieVars, pairVars, algVars, rtVars, urefVars, srvVars, serVars, normVars, writeVars, xferVars, ctrVars, valVars, qryVars, genVars, respVars, bondVars>>
    \/ \E t \in Threads : ConcCheckoutContains(t) /\ UNCHANGED <<detVars, tcVars, execVars, trieVars, pairVars, algVars, rtVars, urefVars, srvVars, serVars, normVars, writeVars, xferVars, ctrVars, valVars, qryVars, genVars, respVars, bondVars>>
    \/ \E t \in Threads : ConcCheckoutStore(t) /\ UNCHANGED <<detVars, tcVars, execVars, trieVars, pairVars, algVars, rtVars, urefVars, srvVars, serVars, normVars, writeVars, xferVars, ctrVars, valVars, qryVars, genVars, respVars, bondVars>>
    \/ \E t \in Threads : ConcCheckoutGet(t) /\ UNCHANGED <<detVars, tcVars, execVars, trieVars, pairVars, algVars, rtVars, urefVars, srvVars, serVars, normVars, writeVars, xferVars, ctrVars, valVars, qryVars, genVars, respVars, bondVars>>
    \/ \E t \in Threads : ConcMultipleFind(t) /\ UNCHANGED <<detVars, tcVars, execVars, trieVars, pairVars, algVars, rtVars, urefVars, srvVars, serVars, normVars, writeVars, xferVars, ctrVars, valVars, qryVars, genVars, respVars, bondVars>>
    \/ \E t \in Threads : ConcMultipleGet(t) /\ UNCHANGED <<detVars, tcVars, execVars, trieVars, pairVars, algVars, rtVars, urefVars, srvVars, serVars, normVars, writeVars, xferVars, ctrVars, valVars, qryVars, genVars, respVars, bondVars>>
    \/ \E t \in Threads : ConcMultipleStore(t) /\ UNCHANGED <<detVars, tcVars, execVars, trieVars, pairVars, algVars, rtVars, urefVars, srvVars, serVars, normVars, writeVars, xferVars, ctrVars, valVars, qryVars, genVars, respVars, bondVars>>
    \/ \E t \in Threads : ConcCommitRemove(t) /\ UNCHANGED <<detVars, tcVars, execVars, trieVars, pairVars, algVars, rtVars, urefVars, srvVars, serVars, normVars, writeVars, xferVars, ctrVars, valVars, qryVars, genVars, respVars, bondVars>>
    \/ \E t \in Threads : ConcCommitInsert(t) /\ UNCHANGED <<detVars, tcVars, execVars, trieVars, pairVars, algVars, rtVars, urefVars, srvVars, serVars, normVars, writeVars, xferVars, ctrVars, valVars, qryVars, genVars, respVars, bondVars>>
    \/ \E t \in Threads : ConcCommitClone(t) /\ UNCHANGED <<detVars, tcVars, execVars, trieVars, pairVars, algVars, rtVars, urefVars, srvVars, serVars, normVars, writeVars, xferVars, ctrVars, valVars, qryVars, genVars, respVars, bondVars>>
    \/ \E t \in Threads : ConcCommitHash(t) /\ UNCHANGED <<detVars, tcVars, execVars, trieVars, pairVars, algVars, rtVars, urefVars, srvVars, serVars, normVars, writeVars, xferVars, ctrVars, valVars, qryVars, genVars, respVars, bondVars>>
    \/ \E t \in Threads : ConcCommitStore(t) /\ UNCHANGED <<detVars, tcVars, execVars, trieVars, pairVars, algVars, rtVars, urefVars, srvVars, serVars, normVars, writeVars, xferVars, ctrVars, valVars, qryVars, genVars, respVars, bondVars>>

SpecConcurrent == ConcInit /\ [][ConcNext]_vars /\ WF_vars(ConcNext)

\* A deploy of the bonding contract, one statement after another
BondInit == StoreInit /\ DetIdle /\ TcIdle /\ ExecIdle /\ TrieIdle /\ PairIdle /\ AlgIdle /\ RtIdle /\ URefIdle /\ SrvIdle /\ SerIdle /\ NormIdle /\ WriteIdle /\ XferIdle /\ CtrIdle /\ ValIdle /\ QryIdle /\ GenIdle /\ RespIdle /\ ConcIdle /\ BondIdle

BondNext ==
    \/ \E pos_named \in PosNamedKeys, pos_stored \in PosStoredValues, balance \in BondBalances, others \in BondOtherPurses :
            BondDeploy(pos_named, pos_stored, balance, others) /\ UNCHANGED <<storeVars, detVars, tcVars, execVars, trieVars, pairVars, algVars, rtVars, urefVars, srvVars, serVars, normVars, writeVars, xferVars, ctrVars, valVars, qryVars, genVars, respVars, concVars>>
    \/ BondResolvePos /\ UNCHANGED <<storeVars, detVars, tcVars, execVars, trieVars, pairVars, algVars, rtVars, urefVars, srvVars, serVars, normVars, writeVars, xferVars, ctrVars, valVars, qryVars, genVars, respVars, concVars>>
    \/ BondPurses /\ UNCHANGED <<storeVars, detVars, tcVars, execVars, trieVars, pairVars, algVars, rtVars, urefVars, srvVars, serVars, normVars, writeVars, xferVars, ctrVars, valVars, qryVars, genVars, respVars, concVars>>
    \/ BondTransfer /\ UNCHANGED <<storeVars, detVars, tcVars, execVars, trieVars, pairVars, algVars, rtVars, urefVars, srvVars, serVars, normVars, writeVars, xferVars, ctrVars, valVars, qryVars, genVars, respVars, concVars>>
    \/ BondMatch(bond_env.calls[Len(bond_env.calls)]) /\ UNCHANGED <<storeVars, detVars, tcVars, execVars, trieVars, pairVars, algVars, rtVars, urefVars, srvVars, serVars, normVars, writeVars, xferVars, ctrVars, valVars, qryVars, genVars, respVars, concVars>>

SpecBonding == BondInit /\ [][BondNext]_vars


SpecSerialization == SerInit /\ [][SerNext]_vars

(***************************************************************************)
(* Claims.                                                                 *)
(***************************************************************************)
\* C1 (as claimed): commit is deterministic. When a commit is made with the
\* same effect set on the same prestate root as the commit before it, it
\* returns the same post-state root.
C1_CommitDeterministic ==
    [][(/\ lastCommit # NoCommit
        /\ lastCommit'.pre = lastCommit.pre
        /\ lastCommit'.eff = lastCommit.eff)
          => lastCommit'.post = lastCommit.post]_vars


\* C2: history is append-only. A step never removes a known root nor changes
\* the snapshot kept under it; the root a commit returns is recorded with the
\* state the commit produced; a checkout exposes exactly the snapshot recorded
\* under its root.
C2_HistoryAppendOnly ==
    [][/\ \A r \in DOMAIN history : r \in DOMAIN history' /\ history'[r] = history[r]
       /\ (result'.op = "commit" /\ result'.res = "Ok")
            => (result'.root \in DOMAIN history' /\ history'[result'.root] = active_state')
       /\ (result'.op = "checkout" /\ result'.res = "Ok")
            => (active_state' = history[result'.root])]_vars

\* C2 witness: two roots are known, the root checked out is not the one the
\* last commit made, and the state exposed differs from the newer root's.
C2_Witness ==
    /\ result.op = "checkout" /\ result.res = "Ok"
    /\ \E r \in DOMAIN history : r # result.root /\ history[r] # history[result.root]
    /\ active_state = history[result.root]
    /\ active_state # EmptyMap

\* C3 (as claimed): a commit that returns an error leaves the working state
\* and the history as they were.
C3_FailedCommitChangesNothing ==
    [][(result'.op = "commit" /\ result'.res # "Ok")
          => (active_state' = active_state /\ history' = history)]_vars

\* C7: a checkout (or checkout_multiple) fails exactly when a root it names is
\* not known, and a failed one changes neither the history nor the working
\* state.
C7_UnknownCheckoutChangesNothing ==
    [][/\ (result'.op \in {"checkout", "checkout_multiple"} /\ result'.res = "RootNotFound")
            => (/\ active_state' = active_state
                /\ history' = history
                /\ result'.root \notin DOMAIN history)
       /\ (result'.op = "checkout" /\ result'.res = "Ok") => result'.root \in DOMAIN history]_vars

\* C7 witness: a checkout of an unknown root has failed on a store that holds
\* roots and a non-empty working state.
C7_Witness ==
    /\ result.op = "checkout" /\ result.res = "RootNotFound"
    /\ result.root \notin DOMAIN history
    /\ history # EmptyMap
    /\ active_state # EmptyMap

\* The value key k has under root r, as a read of it would report.
ValueUnder(r, k) ==
    IF k \in DOMAIN history[r]
    THEN [res |-> "Ok", val |-> history[r][k]]
    ELSE [res |-> "KeyNotFound", val |-> NoValue]

\* C4 (as claimed): a tracking copy checked out at root r is a stable
\* snapshot. A read of a key the copy has not written or added to returns the
\* value the key has under r, whatever checkouts and commits were made on the
\* store since the copy was checked out.
C4_StableSnapshot ==
    (tcResult.op = "read" /\ tcResult.key \notin DOMAIN dirty)
        => (/\ tcResult.res = ValueUnder(tc.root, tcResult.key).res
            /\ tcResult.val = ValueUnder(tc.root, tcResult.key).val)

\* C9: read-after-write inside a deploy. A read of a key the tracking copy
\* wrote, with no add to it since, returns the value last written, whatever
\* the underlying state holds for the key.
C9_ReadAfterWrite ==
    (/\ tcResult.op = "read"
     /\ tcResult.key \in DOMAIN dirty
     /\ dirty[tcResult.key] # NoValue)
        => (tcResult.res = "Ok" /\ tcResult.val = dirty[tcResult.key])

\* C9 witness: a written key has been read back with the written value while
\* the underlying state holds another value for it, and another written key
\* is absent from the underlying state.
C9_Witness ==
    /\ tcResult.op = "read"
    /\ tcResult.key \in DOMAIN dirty
    /\ tcResult.val = dirty[tcResult.key]
    /\ tcResult.val # NoValue
    /\ tcResult.key \in DOMAIN active_state
    /\ active_state[tcResult.key] # tcResult.val
    /\ \E k \in DOMAIN dirty : k \notin DOMAIN active_state /\ dirty[k] # NoValue

\* The first host call of the deploy with result b was a read of key k.
ReadsFirst(b, k) == b.trace # <<>> /\ b.trace[1].op = "read" /\ b.trace[1].key = k

\* The deploy with result a succeeded with a write of key k.
Wrote(a, k) ==
    a.status = "Success" /\ k \in DOMAIN a.transforms /\ a.transforms[k].t = "Write"

C6_UnknownRootIsMissingParent ==
    (response.call = "exec" /\ response.root \notin DOMAIN history)
        => (response.kind = "MissingParent" /\ response.results = <<>>)

\* C8: run_deploy does not mutate global state. Whether the deploy succeeds,
\* reverts or fails preprocessing, the known roots are the same after it and
\* every key has under every known root the value it had before.
C8_RunDeployLeavesGlobalState ==
    [][(result'.op = "run_deploy")
          => (/\ DOMAIN history' = DOMAIN history
              /\ \A r \in DOMAIN history, k \in Keys : ValueUnder(r, k)' = ValueUnder(r, k))]_vars

\* C8 witness: a deploy has succeeded with a write of a value to a key, and
\* the key has another value under every known root, the prestate included.
C8_Witness ==
    /\ response.call = "run_deploy" /\ response.kind = "Ok"
    /\ \E k \in Keys :
          /\ Wrote(response.results[1], k)
          /\ response.root \in DOMAIN history
          /\ \A r \in DOMAIN history :
                ValueUnder(r, k).val # response.results[1].transforms[k].v

\* C10: writes put in a read-write transaction that ends without commit are
\* never visible. On either backend a get in a read transaction of a hash that
\* no committed transaction put returns None, and a hash that is returned
\* comes with the trie a committed transaction put under it.
C10_UncommittedWritesInvisible ==
    /\ (readResult # NoRead /\ readResult.hash \notin committedPuts)
            => readResult.value = None
    /\ (readResult # NoRead /\ readResult.value # None)
            => \E item \in Items : item.hash = readResult.hash /\ item.trie = readResult.value

\* C10 witness: on an environment of one of the two backends a read
\* transaction got None for a hash that only a transaction ended without commit
\* put, while the environment holds the committed put of another hash.
C10_Witness ==
    /\ readResult # NoRead
    /\ readResult.hash \in droppedPuts \ committedPuts
    /\ readResult.value = None
    /\ env.data # EmptyMap
    /\ env.backend \in Backends

\* C11: the two trie-store backends are interchangeable. A get_many gives the
\* same results on the in-memory and on the LMDB environment after the same
\* transaction operations, and inside a read-write transaction a get of a hash
\* put in that transaction returns the trie that was put, the results being in
\* the order of the hashes asked for.
C11_BackendsInterchangeable ==
    /\ pairResult.mem = pairResult.lmdb
    /\ Len(pairResult.mem) = Len(pairResult.keys)
    /\ pairResult.inTxn
          => \A i \in 1..Len(pairResult.keys) :
                pairResult.keys[i] \in DOMAIN pending
                    => (/\ pairResult.mem[i] = pending[pairResult.keys[i]]
                        /\ pairResult.lmdb[i] = pending[pairResult.keys[i]])

\* C11 witness: inside a read-write transaction two different hashes put in it
\* were read back in one get_many, neither of them committed yet, with the two
\* tries that were put, on both environments.
C11_Witness ==
    /\ pairResult.inTxn
    /\ Len(pairResult.keys) = 2
    /\ pairResult.keys[1] # pairResult.keys[2]
    /\ \A i \in 1..2 :
          /\ pairResult.keys[i] \in DOMAIN pending
          /\ pairResult.keys[i] \notin DOMAIN lmdb.data
          /\ pairResult.mem[i] = pending[pairResult.keys[i]]
          /\ pairResult.lmdb[i] = pending[pairResult.keys[i]]
          /\ pairResult.mem[i] # None
    /\ lmdb.data # EmptyMap

\* The sum of two i32 is within the range of the type.
InRange(i, j) ==
    /\ ~(j > 0 /\ i > I32_MAX - j)
    /\ ~(j < 0 /\ i < (-I32_MAX - 1) - j)

\* The Int32 amount a transform adds or writes, 0 if it has none.
Amount(t) ==
    IF t.t = "AddInt32" \/ (t.t = "Write" /\ t.v.tag = INT32_ID) THEN t.v.n ELSE 0

Last(seq) == seq[Len(seq)]

\* C16: gas bounds every deploy. Each gas(n) call adds n to used; the call
\* traps with GasLimit exactly when it makes used exceed the limit, so a
\* deploy that is still executing has used <= limit; and the result of a
\* deploy that trapped on gas is a failure that carries none of the effects
\* the deploy had staged.
C16_GasBoundsDeploy ==
    [][/\ rt'.status = "running" => rt'.used <= rt'.limit
       /\ hostCall'.op = "gas" =>
            /\ rt'.used = rt.used + hostCall'.arg
            /\ rt'.limit = rt.limit
            /\ (hostCall'.outcome = "trap") = (rt'.used > rt'.limit)
            /\ (hostCall'.outcome = "returned") = (rt'.used <= rt'.limit)
            /\ hostCall'.outcome = "trap" =>
                 /\ rt'.status = "trapped"
                 /\ Len(deployResults') = Len(deployResults) + 1
                 /\ Last(deployResults') = ExecFailure(GasLimit, <<>>)
                 /\ Last(deployResults').transforms = EmptyMap]_vars

\* A deploy staged a write and then exceeded its gas limit.
C16_Witness ==
    /\ hostCall = HostCallOf("gas", MaxGas, "trap")
    /\ rt.used > rt.limit
    /\ rt.tc.fns # EmptyMap
    /\ Last(deployResults).error = GasLimit

\* C17: revert(code) aborts the deploy. The call does not return to the Wasm
\* caller, the deploy's result is the failure with the code and without any
\* of the effects staged before, and after the trap the only step is the
\* start of the next deploy: no host function runs for the reverted deploy.
C17_RevertAborts ==
    [][/\ hostCall'.op = "revert" =>
            /\ hostCall'.outcome = "trap"
            /\ rt'.status = "trapped"
            /\ Len(deployResults') = Len(deployResults) + 1
            /\ Last(deployResults').status = "Failure"
            /\ Last(deployResults').error = Revert(hostCall'.arg)
            /\ Last(deployResults').transforms = EmptyMap
            /\ Last(deployResults').ops = EmptyMap
       /\ rt.status = "trapped" => hostCall'.op = "start" /\ deployResults' = deployResults]_vars

\* A deploy staged a write and then reverted with status 101.
C17_Witness ==
    /\ hostCall = HostCallOf("revert", 101, "trap")
    /\ rt.tc.fns # EmptyMap
    /\ Last(deployResults) = ExecFailure(Revert(101), <<>>)

\* C18 (as claimed): whatever arguments a contract passes to a host
\* function, the host never panics.
C18_HostNeverPanics == hostCall.outcome # "panic"

\* The URef names an address the frame knows, with rights among those held.
WithinHeld(known, uref) ==
    /\ uref.addr \in DOMAIN known
    /\ \A b \in {READ, WRITE, ADD} :
          (uref.rights \div b) % 2 = 1 => (Lookup(known, uref.addr, 0) \div b) % 2 = 1

\* The rights on an address that exist when the deploy starts: the session's
\* and the contract's.
Authority(addr) == Bits(Held(SessionKnown, addr)) \cup Bits(Held(ContractKnown, addr))

\* C15: URefs cannot be forged or widened. A host call that names a URef the
\* current frame does not know, or with rights beyond those the frame holds,
\* is rejected as a forged reference and changes neither the staged effect
\* nor any frame; a call that is accepted named only URefs within the rights
\* held; is_valid_uref answers exactly that test; and the rights a frame
\* holds on a URef that existed before the deploy never exceed what the
\* frame had before the call (for a new frame: what is stored with the
\* contract) joined with the validated URefs passed or returned to it, so
\* they stay within the rights that existed when the deploy started.
C15_NoForgedURef ==
    [][LET cur == frames[Len(frames)]
       IN  /\ urefCall'.op \in {"read", "write", "add", "call_contract", "ret"} =>
                /\ (\E u \in urefCall'.urefs : ~WithinHeld(cur.known, u)) =>
                       /\ urefCall'.outcome = "ForgedReference"
                       /\ frames' = frames
                       /\ stagedURefs' = stagedURefs
                /\ urefCall'.outcome = "Ok" =>
                       \A u \in urefCall'.urefs : WithinHeld(cur.known, u)
           /\ urefCall'.op = "is_valid_uref" =>
                (urefCall'.outcome = "true") = (\A u \in urefCall'.urefs : WithinHeld(cur.known, u))
           /\ \A i \in 1..Len(frames') : \A addr \in ExistingAddrs :
                LET now == Bits(Held(frames'[i].known, addr))
                    before == IF i <= Len(frames) THEN Bits(Held(frames[i].known, addr))
                              ELSE Bits(Held(ContractKnown, addr))
                    handed == {b \in {READ, WRITE, ADD} :
                                 \E u \in urefCall'.urefs :
                                     /\ u.addr = addr
                                     /\ b \in Bits(u.rights)
                                     /\ WithinHeld(cur.known, u)
                                     /\ urefCall'.op \in {"call_contract", "ret"}}
                IN  /\ now \subseteq before \cup handed
                    /\ now \subseteq Authority(addr)]_vars

\* The session code, which was given READ on URef 1 and has since been
\* returned URef 2 by the contract it called, named URef 1 with READ_WRITE
\* in a write and was rejected.
C15_Witness ==
    /\ urefCall = URefCallOf("write", {URef(1, Mask({READ, WRITE}))}, "ForgedReference")
    /\ Len(frames) = 1
    /\ Held(frames[1].known, 1) = READ
    /\ 2 \in DOMAIN frames[1].known
    /\ stagedURefs # {}

\* C19 (as claimed): every request to query, exec or commit ends in a typed
\* response variant with a message, never in a panic, whatever the lengths
\* of its hashes and addresses and whatever its protocol version.
C19_EveryRequestGetsAResponse ==
    reply.call \in {"query", "exec", "commit"} =>
        /\ reply.kind \in {"success", "failure", "missing_parent", "missing_prestate",
                           "failed_transform"}
        /\ reply.kind # "success" => reply.message # ""

C21_Canonical == ser.stage = "encoded" => ser.again = ser.bytes

C24_DecodedRightsNonEmpty ==
    ser.stage = "decoded" /\ ser.kind = "AccessRights" =>
        (ser.parsed.ok <=> ser.bytes[1] \in 1..7)

\* C23: for each of the seven named AccessRights values, is_readable,
\* is_writeable and is_addable are true exactly when READ, WRITE and ADD
\* respectively is one of the flags of the value.
C23_RightsPredicates ==
    \A named \in NamedRights :
        ser.stage = "tested" /\ ser.parsed.v = Mask(named) =>
            ser.tests = <<READ \in named, WRITE \in named, ADD \in named>>

C23_Witness ==
    /\ ser.stage = "tested"
    /\ ser.parsed.v = ADD
    /\ ser.tests = <<FALSE, FALSE, TRUE>>

\* C25: normalize maps URef(addr, rights) to URef(addr, None) and every
\* other key to itself; it is idempotent; two URef keys with the same
\* address are equal, and compare as equal, once normalized.
C25_Normalize ==
    /\ norm.stage \in {"normalized", "again", "compared"} =>
            norm.na = (IF norm.a.tag = UREF_ID THEN KeyURef(norm.a.addr, OptNone) ELSE norm.a)
    /\ norm.stage = "again" => norm.nna = norm.na
    /\ norm.stage = "compared" /\ norm.a.tag = UREF_ID /\ norm.b.tag = UREF_ID
            /\ norm.a.addr = norm.b.addr =>
            norm.eq /\ norm.cmp = "Equal"

C25_Witness ==
    /\ norm.stage = "compared"
    /\ norm.a = KeyURef(Addr32(7), OptSome(READ))
    /\ norm.b = KeyURef(Addr32(7), OptSome(READ_ADD_WRITE))
    /\ norm.eq
    /\ norm.cmp = "Equal"

\* C26: the root hash of a trie depends only on its set of entries: the
\* same entries written in any order from the empty trie give the same root
\* hash and the same nodes reachable from the root.
C26_OrderIndependentRoot ==
    Range(left.order) = Range(right.order) =>
        /\ left.root_hash = right.root_hash
        /\ Reachable(left.trie) = Reachable(right.trie)

C26_Witness ==
    /\ Range(left.order) = WriteEntries
    /\ Range(right.order) = WriteEntries
    /\ left.order[1] = right.order[4]
    /\ left.order[4] = right.order[1]
    /\ left.root_hash = right.root_hash

C28_Overdraft ==
    xfer.op = "transfer" /\ xfer.amount > xfer.before.purses[xfer.before.main_purse[xfer.from]].n =>
        /\ xfer.transfer_result = "TransferError"
        /\ bank = xfer.before
        /\ xfer.final_balance = xfer.before.purses[xfer.before.main_purse[xfer.from]].n
        /\ xfer.status = "Success"

C28_Witness ==
    /\ xfer.op = "transfer"
    /\ xfer.from = GENESIS_ADDR
    /\ xfer.target = ACCOUNT_1_ADDR
    /\ xfer.amount = U512_MAX
    /\ xfer.transfer_result = "TransferError"
    /\ ACCOUNT_1_ADDR \notin DOMAIN bank.main_purse

\* C29: after the defining deploy is committed the counter URef holds
\* Int32(0); each committed "inc" invocation increases the stored value by
\* exactly 1, so that after n of them it is Int32(n); a "get" invocation
\* returns the current value and leaves it unchanged.
C29_Counter ==
    ctr.defined =>
        /\ ctr.log = <<>> => world[counter_local_key] = Int32(0)
        /\ world[counter_local_key] = Int32(TimesIn(ctr.log, "inc"))
        /\ (ctr.log # <<>> /\ ctr.log[Len(ctr.log)] = "inc") =>
                world[counter_local_key].n = ctr.before[counter_local_key].n + 1
        /\ (ctr.log # <<>> /\ ctr.log[Len(ctr.log)] = "get") =>
                /\ ctr.returned = ctr.before[counter_local_key]
                /\ world = ctr.before

C29_Witness ==
    /\ ctr.log = <<"inc", "inc", "get">>
    /\ ctr.returned = Int32(2)
    /\ world[counter_local_key] = Int32(2)

\* C30: validate returns Success when both payment_code and session_code are
\* valid modules, and Failure when either is malformed or imports a host
\* function outside the allowed set; when both are invalid the message is
\* the payment module's.
C30_Validate ==
    reply.call = "validate" =>
        /\ reply.kind = "success" <=>
                Acceptable(validate_request.payment_code) /\ Acceptable(validate_request.session_code)
        /\ (~get_module(validate_request.payment_code).ok /\ ~get_module(validate_request.session_code).ok) =>
                reply.message = get_module(validate_request.payment_code).cause

\* C31: query follows the path through the named keys of Account and
\* Contract values from the value at the base key: it returns Success with
\* the value reached when every name resolves (the value at the base key for
\* the empty path), and otherwise ValueNotFound carrying the prefix of the
\* path that was reached when resolution stopped.
C31_Query ==
    queried.returned.kind \in {"Success", "ValueNotFound"} =>
        IF Resolved(QuerySnapshot, QuerySnapshot[queried.base_key], queried.path) = Len(queried.path)
        THEN queried.returned =
                QuerySuccess(Reached(QuerySnapshot, QuerySnapshot[queried.base_key], queried.path))
        ELSE queried.returned =
                ValueNotFound(PushStrs(SubSeq(queried.path, 1,
                    Resolved(QuerySnapshot, QuerySnapshot[queried.base_key], queried.path))))

\* C32: in the state produced by committing the genesis effects every key
\* in the named keys of the genesis account, of the mint contract and of the
\* proof-of-stake contract has a value stored under it.
C32_GenesisResolvable ==
    genesis.state # EmptyMap =>
        \A holder \in Holders(genesis.state) :
            \A name \in DOMAIN genesis.state[holder].named_keys :
                normalize(genesis.state[holder].named_keys[name]) \in DOMAIN genesis.state

\* C33: create_genesis_effects is deterministic: two calls with equal
\* arguments return equal ops and transforms, and a caller that makes the
\* PRNG anew from (genesis_account_addr, 0) draws the mint's public URef,
\* the mint contract's URef, the purse id and the balance URef, in this order.
C33_GenesisDeterministic ==
    /\ genesis.again # NoEffect => genesis.again = genesis.effect
    /\ genesis.urefs # <<>> =>
        /\ Lookup(genesis.effect.transforms, normalize(genesis.urefs[1]), Identity) = Write(KeyValue(genesis.urefs[2]))
        /\ Lookup(genesis.effect.transforms, normalize(genesis.urefs[2]), Identity).v.tag = CONTRACT_ID
        /\ genesis.effect.transforms[Account(Addr32(genesis.genesis_account_addr))].v.purse_id
                = genesis.urefs[3]
        /\ Lookup(genesis.effect.transforms, LocalKeyOf(genesis.urefs[2].addr, genesis.urefs[3].addr), Identity)
                = Write(KeyValue(genesis.urefs[4]))
        /\ Lookup(genesis.effect.transforms, normalize(genesis.urefs[4]), Identity)
                = Write(UInt512(genesis.initial_tokens))

C33_Witness ==
    /\ genesis.again = genesis.effect
    /\ genesis.again # NoEffect
    /\ genesis.urefs # <<>>
    /\ genesis.initial_tokens > 0
    /\ genesis.genesis_validators # <<>>

\* C34: the genesis effect consists of writes only: every transform is a
\* Write, ops and transforms have the same keys and every op is Write, every
\* URef key is stored without access rights, and with no validators the
\* effect has exactly 7 entries.
C34_GenesisWrites ==
    genesis # NoGenesis =>
        /\ DOMAIN genesis.effect.ops = DOMAIN genesis.effect.transforms
        /\ \A k \in DOMAIN genesis.effect.transforms :
            /\ genesis.effect.transforms[k].t = "Write"
            /\ genesis.effect.ops[k] = "Write"
            /\ k.tag = UREF_ID => k.access_rights = OptNone
        /\ genesis.genesis_validators = <<>> => Cardinality(DOMAIN genesis.effect.transforms) = 7

C34_Witness ==
    /\ genesis # NoGenesis
    /\ genesis.genesis_validators = <<>>
    /\ Cardinality({k \in DOMAIN genesis.effect.transforms : k.tag = UREF_ID}) = 5

\* C35: during commit a transform for a key without a value succeeds only
\* if it is Write(v), which creates the key with value v, and any other
\* transform fails the commit with KeyNotFound; for a key with value c the
\* stored value becomes apply(c, t), or the commit fails with the
\* TypeMismatch that apply reports.
C35_CommitPerKey ==
    [][\A effects \in PerKeyEffects : Commit(effects) =>
        /\ result'.res \in {"Ok", "KeyNotFound", "TypeMismatch"}
        /\ result'.res = "Ok" =>
            \A k \in DOMAIN effects :
                /\ Committed(active_state, k, effects[k]).res = "Ok"
                /\ k \in DOMAIN active_state'
                /\ active_state'[k] = Committed(active_state, k, effects[k]).v
        /\ result'.res # "Ok" =>
            \E k \in DOMAIN effects : Committed(active_state, k, effects[k]).res = result'.res
       ]_vars

C35_Witness ==
    /\ result.op = "commit"
    /\ result.res = "KeyNotFound"
    /\ active_state # EmptyMap
    /\ \E k \in DOMAIN active_state : active_state[k].tag = CONTRACT_ID /\ active_state[k].named_keys # EmptyMap

\* C36: when the prestate root is known, exec returns exactly one deploy
\* result per submitted deploy, in the order of submission: a failure for a
\* deploy that fails preprocessing or execution, which does not keep the
\* later deploys from being executed.
C36_OneResultPerDeploy ==
    (exec_response.kind # "none" /\ exec_response.known) =>
        /\ exec_response.kind = "success"
        /\ Len(exec_response.deploy_results) = Len(exec_response.deploys)
        /\ \A i \in DOMAIN exec_response.deploy_results :
            exec_response.deploy_results[i].status =
                IF exec_response.deploys[i].code.valid THEN "Success" ELSE "Failure"

\* C37: InMemGS never deadlocks: under any interleaving of concurrent get,
\* checkout, checkout_multiple, commit and get_root_hash calls every call
\* eventually returns; no two calls take the two mutexes in opposite orders
\* and no call takes a mutex it already holds.
C37_NoDeadlock ==
    /\ [](\A t \in Threads : ~(Wants(t) # "none" /\ lock[Wants(t)] = t))
    /\ [](\A t \in Threads : (lock.history = t /\ Wants(t) = "active_state") =>
                \A u \in Threads : ~(lock.active_state = u /\ Wants(u) = "history"))
    /\ []((\E t \in Threads : ~Finished(t)) => (\E t \in Threads : ~Finished(t) /\ ~Blocked(t)))
    /\ <>[](\A t \in Threads : Finished(t))

C37_Witness ==
    /\ lock.active_state = 1
    /\ thread[1].pc = "checkout_get"
    /\ thread[2].pc = "commit_insert"

\* C38: history is content-addressed in every reachable state: whenever the
\* history maps root h to snapshot s, h is the hash of exactly s, under any
\* interleaving of concurrent commit and checkout calls.
C38_ContentAddressed ==
    \A h \in DOMAIN history :
        \E order \in IterationOrders(DOMAIN history[h]) : h = RootHash(history[h], order)

\* The calls of op the deploy has made before its i-th call
BondCallsBefore(i, op) == {j \in 1..(i - 1) : bond_env.calls[j].op = op}

\* C39: the bonding session contract calls bond of the proof-of-stake
\* contract only after transfer_from_purse_to_purse(main purse, freshly
\* created bonding purse, amount) has returned TransferSuccessful; on
\* TransferError it reverts with code 1324 and never calls proof-of-stake;
\* the only URef it passes along with the call of bond is the bonding purse.
C39_BondAfterTransfer ==
    /\ [](\A i \in 1..Len(bond_env.calls) : bond_env.calls[i].op = "call_contract" =>
            /\ bond_env.calls[i].ret = "bond"
            /\ bond_env.calls[i].pointer = bonding.pos_pointer
            /\ bond_env.calls[i].urefs = <<bonding.bonding_purse>>
            /\ \E j \in BondCallsBefore(i, "transfer_from_purse_to_purse") :
                /\ bond_env.calls[j].ret = "TransferSuccessful"
                /\ bond_env.calls[j].source = PurseOf(GENESIS_ADDR)
                /\ bond_env.calls[j].target = bonding.bonding_purse
                /\ bond_env.calls[j].amount = BOND_AMOUNT
                /\ \E k \in BondCallsBefore(j, "create_purse") :
                        bond_env.calls[k].target = bonding.bonding_purse)
    /\ [](\A j \in 1..Len(bond_env.calls) : bond_env.calls[j].ret = "TransferError" =>
            /\ BondCallsBefore(Len(bond_env.calls) + 1, "call_contract") = {}
            /\ bonding.pc = "match" \/ bonding.status = "Revert"
            /\ j < Len(bond_env.calls) =>
                    /\ bond_env.calls[j + 1].op = "revert"
                    /\ bond_env.calls[j + 1].amount = 1324)
    /\ [][BondPurses => bonding'.bonding_purse \notin DOMAIN bond_env.purses]_vars

\* A deploy that has bonded, on a state with a purse besides the main one
C39_Witness ==
    /\ bonding.status = "Success"
    /\ bond_env.calls[Len(bond_env.calls)].op = "call_contract"
    /\ DOMAIN bond_env.purses = {PurseOf(GENESIS_ADDR), PurseOf(GENESIS_ADDR) + 1, PurseOf(GENESIS_ADDR) + 2}
    /\ bond_env.purses[bonding.bonding_purse].n = BOND_AMOUNT

====
